---- MODULE Spec2Model ----
(***************************************************************************)
(* A model of the .obb secure container of optical_blackbox:               *)
(*   formats/obb_file.py     OBBWriter / OBBReader                          *)
(*   formats/obb_payload.py  payload encryption, signing, reconstruction    *)
(*   models/surface.py, models/surface_group.py  the design data model      *)
(*                                                                         *)
(* Floats are carried as their literal tokens (strings): "25.0", "inf",     *)
(* and on the JSON side "1e+99" (INFINITY_SENTINEL), "Infinity", "null".    *)
(* No arithmetic is done on them; the code only compares them with the      *)
(* sentinel and with zero, which the token sets below decide.               *)
(*                                                                         *)
(* Byte strings are carried by what they encode: a ciphertext is the        *)
(* record of what was encrypted, for whom and under which ephemeral key,    *)
(* with a damage mark; a JSON text is the structure it encodes, with a      *)
(* damage mark for texts that no longer decode.                             *)
(***************************************************************************)
EXTENDS Integers, Sequences, FiniteSets, TLC

\* ---------------------------------------------------------------- bounds
\* Longest element list of a design.
MaxSurfaces == 2

\* Ordinals the designs draw from (repeats and any order are allowed:
\* SurfaceGroup validates neither).
SurfaceNumbers == {0, 1}

\* ------------------------------------------------------- models/surface.py
SurfaceTypeValues == {"standard", "evenasph", "oddasph", "toroidal"}

PUBLIC == "public"

ENCRYPTED == "encrypted"

REDACTED == "redacted"

SurfaceVisibilityValues == {PUBLIC, ENCRYPTED, REDACTED}

\* abs(v) >= INFINITY_SENTINEL, on float tokens (INFINITY_SENTINEL = 1e99).
AbsGeSentinel(v) == v \in {"inf", "-inf", "1e+99", "-1e+99"}

\* value > 0, on the tokens AbsGeSentinel accepts.
IsPositive(v) == v \in {"inf", "1e+99"}

\* Surface.parse_radius (field_validator, mode="before").
parse_radius(v) ==
    IF v = "None" THEN "inf"
    ELSE IF AbsGeSentinel(v) THEN "inf"
    ELSE v

\* Surface.serialize_radius (field_serializer).
serialize_radius(value) ==
    IF value = "inf" \/ value = "-inf" \/ AbsGeSentinel(value)
    THEN (IF IsPositive(value) THEN "1e+99" ELSE "-1e+99")
    ELSE value

\* Surface(...): the constructor with the field defaults; radius goes
\* through parse_radius.  A keyword that is not a field (the tests and
\* decrypt_payload_selective pass comment=...) is dropped: the model
\* declares no such field and pydantic ignores unknown keywords.
Surface(surface_number, surface_type, radius, thickness, semi_diameter, conic, material, aspheric_coeffs, decenter_x, visibility) ==
    [surface_number  |-> surface_number,
     surface_type    |-> surface_type,
     radius          |-> parse_radius(radius),
     thickness       |-> thickness,
     semi_diameter   |-> semi_diameter,
     conic           |-> conic,
     material        |-> material,
     aspheric_coeffs |-> aspheric_coeffs,
     decenter_x      |-> decenter_x,
     decenter_y      |-> "0.0",
     tilt_x          |-> "0.0",
     tilt_y          |-> "0.0",
     visibility      |-> visibility]

\* Surface(surface_number=n, visibility=v): every other field at its default.
DefaultSurface(n, v) ==
    Surface(n, "standard", "inf", "0.0", "0.0", "0.0", "None", "None", "0.0", v)

\* The surfaces the designs are made of: a glass asphere and an object
\* plane at infinity (radius and thickness infinite), each with any ordinal
\* and any visibility.
LensSurface(n, v) ==
    Surface(n, "evenasph", "25.0", "5.0", "12.7", "-0.5", "N-BK7", "A4", "0.1", v)

ObjectPlane(n, v) ==
    Surface(n, "standard", "None", "inf", "0.0", "0.0", "None", "None", "0.0", v)

SurfaceInputs ==
    {LensSurface(n, v) : n \in SurfaceNumbers, v \in SurfaceVisibilityValues}
    \cup {ObjectPlane(n, v) : n \in SurfaceNumbers, v \in SurfaceVisibilityValues}

\* ------------------------------------------------- models/surface_group.py
\* SurfaceGroup(...): min_length=1 on surfaces is the only constraint on the
\* list; neither the order nor the uniqueness of surface_number is validated.
SurfaceGroup(surfaces, wavelengths_nm, primary_wavelength_index, stop_surface, field_type, max_field) ==
    [surfaces                 |-> surfaces,
     wavelengths_nm           |-> wavelengths_nm,
     primary_wavelength_index |-> primary_wavelength_index,
     stop_surface             |-> stop_surface,
     field_type               |-> field_type,
     max_field                |-> max_field]

\* SurfaceGroup field constraints: wavelengths_nm min_length=1,
\* primary_wavelength_index ge=0.
SurfaceGroupFieldsValid(wavelengths_nm, primary_wavelength_index) ==
    /\ Len(wavelengths_nm) >= 1
    /\ primary_wavelength_index >= 0

\* field_type: Literal["angle", "height"] and max_field: float take no None.
FieldSpecValid(field_type, max_field) ==
    /\ field_type \in {"angle", "height"}
    /\ max_field # "None"

\* dict.get(key, default)
Get(dict, key, default) == IF key \in DOMAIN dict THEN dict[key] ELSE default

SelectSeq3(s, v) == SelectSeq(s, LAMBDA x : x.visibility = v)

\* get_public_surfaces that takes every element that is not Encrypted.
get_public_surfaces_NotEncrypted(surface_group) ==
    SelectSeq(surface_group.surfaces, LAMBDA x : x.visibility # ENCRYPTED)

get_public_surfaces(surface_group) == SelectSeq3(surface_group.surfaces, PUBLIC)

get_encrypted_surfaces(surface_group) == SelectSeq3(surface_group.surfaces, ENCRYPTED)

get_redacted_surfaces(surface_group) == SelectSeq3(surface_group.surfaces, REDACTED)

\* SurfaceGroup.has_selective_encryption()
has_selective_encryption(surface_group) ==
    \E i \in 1..Len(surface_group.surfaces) :
        surface_group.surfaces[i].visibility # PUBLIC

\* The designs written: every list of 1..MaxSurfaces input surfaces, with
\* the wavelengths of the doublet of the class docstring.
Designs ==
    {SurfaceGroup(ss, <<"486.13", "587.56", "656.27">>, 1, 1, "angle", "0.0") :
        ss \in UNION {[1..n -> SurfaceInputs] : n \in 1..MaxSurfaces}}

\* What a failed call leaves in the place of a design.
NoDesign == SurfaceGroup(<<>>, <<>>, 0, 0, "none", "none")

\* ------------------------------------------------------ JSON serialisation
\* How a float leaves pydantic's JSON writer (model_dump_json): a
\* non-finite float is written as null (ser_json_inf_nan defaults to
\* "null"); JSON has no token for it.
DumpFloatJson(v) == IF v \in {"inf", "-inf"} THEN "null" ELSE v

\* How a float leaves model_dump(mode="json") followed by json.dumps.  The
\* installed pydantic decides (InfNan): a build that applies
\* ser_json_inf_nan to JSON-mode dumps yields None, written null; a build
\* that leaves the float alone hands inf to json.dumps, which writes the
\* token Infinity (allow_nan defaults to True).
InfNanBuilds == {"null", "constants"}

DumpFloatPy(v, InfNan) ==
    IF v \in {"inf", "-inf"}
    THEN (IF InfNan = "null" THEN "null"
          ELSE IF v = "inf" THEN "Infinity" ELSE "-Infinity")
    ELSE v

\* Optional[...] fields: None is written null.
DumpOptional(v) == IF v = "None" THEN "null" ELSE v

\* json.loads / pydantic reading an Optional field.
LoadOptional(t) == IF t = "null" THEN "None" ELSE t

\* json.loads reading a number token (Infinity is accepted by Python).
LoadFloat(t) ==
    IF t = "Infinity" THEN "inf" ELSE IF t = "-Infinity" THEN "-inf" ELSE t

\* Surface.model_dump_json(): the JSON object of one surface.
SurfaceDumpJson(s) ==
    [surface_number  |-> s.surface_number,
     surface_type    |-> s.surface_type,
     radius          |-> DumpFloatJson(serialize_radius(s.radius)),
     thickness       |-> DumpFloatJson(s.thickness),
     semi_diameter   |-> DumpFloatJson(s.semi_diameter),
     conic           |-> DumpFloatJson(s.conic),
     material        |-> DumpOptional(s.material),
     aspheric_coeffs |-> DumpOptional(s.aspheric_coeffs),
     decenter_x      |-> DumpFloatJson(s.decenter_x),
     decenter_y      |-> DumpFloatJson(s.decenter_y),
     tilt_x          |-> DumpFloatJson(s.tilt_x),
     tilt_y          |-> DumpFloatJson(s.tilt_y),
     visibility      |-> s.visibility]

\* json.dumps(s.model_dump(mode="json")): the JSON object of one surface as
\* the selective payload carries it.
SurfaceDumpPy(s, InfNan) ==
    [surface_number  |-> s.surface_number,
     surface_type    |-> s.surface_type,
     radius          |-> DumpFloatPy(serialize_radius(s.radius), InfNan),
     thickness       |-> DumpFloatPy(s.thickness, InfNan),
     semi_diameter   |-> DumpFloatPy(s.semi_diameter, InfNan),
     conic           |-> DumpFloatPy(s.conic, InfNan),
     material        |-> DumpOptional(s.material),
     aspheric_coeffs |-> DumpOptional(s.aspheric_coeffs),
     decenter_x      |-> DumpFloatPy(s.decenter_x, InfNan),
     decenter_y      |-> DumpFloatPy(s.decenter_y, InfNan),
     tilt_x          |-> DumpFloatPy(s.tilt_x, InfNan),
     tilt_y          |-> DumpFloatPy(s.tilt_y, InfNan),
     visibility      |-> s.visibility]

\* [s.model_dump(mode="json") for s in surfaces]
DumpAllPy(surfaces, InfNan) ==
    [i \in 1..Len(surfaces) |-> SurfaceDumpPy(surfaces[i], InfNan)]

\* The surfaces array of model_dump_json.
DumpAllJson(surfaces) == [i \in 1..Len(surfaces) |-> SurfaceDumpJson(surfaces[i])]

\* Surface.model_validate accepts the JSON object: surface_number >= 0, the
\* type and visibility tags in their enums, every plain float field a
\* number (null is not a float; radius alone takes None, in parse_radius).
SurfaceValid(j) ==
    /\ j.surface_number >= 0
    /\ j.surface_type \in SurfaceTypeValues
    /\ j.visibility \in SurfaceVisibilityValues
    /\ j.thickness # "null"
    /\ j.semi_diameter # "null"
    /\ j.conic # "null"
    /\ j.decenter_x # "null"
    /\ j.decenter_y # "null"
    /\ j.tilt_x # "null"
    /\ j.tilt_y # "null"

\* Surface.model_validate(j) for an accepted object.
SurfaceValidate(j) ==
    [surface_number  |-> j.surface_number,
     surface_type    |-> j.surface_type,
     radius          |-> parse_radius(LoadFloat(LoadOptional(j.radius))),
     thickness       |-> LoadFloat(j.thickness),
     semi_diameter   |-> LoadFloat(j.semi_diameter),
     conic           |-> LoadFloat(j.conic),
     material        |-> LoadOptional(j.material),
     aspheric_coeffs |-> LoadOptional(j.aspheric_coeffs),
     decenter_x      |-> LoadFloat(j.decenter_x),
     decenter_y      |-> LoadFloat(j.decenter_y),
     tilt_x          |-> LoadFloat(j.tilt_x),
     tilt_y          |-> LoadFloat(j.tilt_y),
     visibility      |-> j.visibility]

\* [Surface.model_validate(s) for s in js]
ValidateAll(js) == [i \in 1..Len(js) |-> SurfaceValidate(js[i])]

\* SurfaceGroup.model_dump_json(): the JSON text of the whole design.  (The
\* computed fields num_surfaces and total_length are written too and are
\* ignored when the text is read back.)
SurfaceGroupDumpJson(surface_group) ==
    [surfaces                 |-> DumpAllJson(surface_group.surfaces),
     wavelengths_nm           |-> surface_group.wavelengths_nm,
     primary_wavelength_index |-> surface_group.primary_wavelength_index,
     stop_surface             |-> surface_group.stop_surface,
     field_type               |-> surface_group.field_type,
     max_field                |-> surface_group.max_field]

\* A result or the exception that ended the call.
\* calls lists, in order, the crypto-engine calls made on the way.
Ok(v) == [exc |-> "none", val |-> v, calls |-> <<>>]

Raise(e) == [exc |-> e, val |-> NoDesign, calls |-> <<>>]

\* The same outcome, reached after the calls c.
After(c, r) == [r EXCEPT !.calls = c \o @]

\* SurfaceGroup.model_validate_json(text).
SurfaceGroupValidateJson(j) ==
    IF /\ Len(j.surfaces) >= 1
       /\ \A i \in 1..Len(j.surfaces) : SurfaceValid(j.surfaces[i])
       /\ Len(j.wavelengths_nm) >= 1
       /\ j.primary_wavelength_index >= 0
    THEN Ok(SurfaceGroup(ValidateAll(j.surfaces), j.wavelengths_nm,
                         j.primary_wavelength_index, j.stop_surface,
                         j.field_type, j.max_field))
    ELSE Raise("ValidationError")

\* ------------------------------------------------------------ key material
\* Key pairs are named; a pair's public and private halves carry its name.
VendorKey == "vendor"

PlatformKey == "platform"

OtherKey == "other"

KeyPairs == {VendorKey, PlatformKey, OtherKey}

\* --------------------------------------------------------- crypto/hybrid.py
\* OBBEncryptor.encrypt(plaintext, recipient_public_key), with the ephemeral
\* key pair it generates named by eph: the ciphertext opens only with the
\* recipient's private key and the ephemeral public key, and only intact.
OBBEncryptor_encrypt(plaintext, recipient_public_key, eph) ==
    [form |-> "ciphertext", eph |-> eph, rcpt |-> recipient_public_key,
     pt |-> plaintext, dmg |-> "none"]

\* OBBEncryptor.decrypt(ciphertext, ephemeral_public_key, private_key): the
\* plaintext, or the single opaque DecryptionError (authentication failed,
\* wrong key, input that is no ciphertext).
OBBEncryptor_decrypt(ciphertext, ephemeral_public_key, private_key) ==
    IF /\ ciphertext.form = "ciphertext"
       /\ ciphertext.dmg = "none"
       /\ ciphertext.eph = ephemeral_public_key
       /\ ciphertext.rcpt = private_key
    THEN [exc |-> "none", pt |-> ciphertext.pt]
    ELSE [exc |-> "DecryptionError", pt |-> <<>>]

\* OBBSigner.sign(data, private_key): the base64 signature text.  The empty
\* string (metadata.signature before a write) is <<>>.
OBBSigner_sign(data, private_key) == <<[data |-> data, signer |-> private_key]>>

\* OBBSigner.verify(data, signature_b64, public_key): true exactly for the
\* signature made over these bytes with the matching private key.
OBBSigner_verify(data, signature_b64, public_key) ==
    /\ signature_b64 # <<>>
    /\ signature_b64[1].data = data
    /\ signature_b64[1].signer = public_key

\* ------------------------------------------------------ formats/obb_payload.py
\* A JSON text, by the structure it encodes.
JsonBytes(d) == [form |-> "json", dict |-> d, dmg |-> "none"]

\* The JSON text of an array, "[]": a JSON value that is no object.
JsonArray == JsonBytes(<<>>)

\* isinstance(value, dict), for a decoded JSON value.
IsJsonObject(value) == value # <<>>

\* The empty byte string.
EmptyBytes == [form |-> "empty", dmg |-> "none"]

\* encrypt_payload that encrypts every payload under one key pair made when
\* the module was loaded.
encrypt_payload_StaticKey(surface_group, platform_public_key, eph) ==
    LET payload_json == JsonBytes(SurfaceGroupDumpJson(surface_group))
    IN  [encrypted_payload |-> OBBEncryptor_encrypt(payload_json, platform_public_key, 1),
         ephemeral_public  |-> 1,
         calls             |-> <<"OBBEncryptor.encrypt">>]

\* encrypt_payload(surface_group, platform_public_key).
encrypt_payload(surface_group, platform_public_key, eph) ==
    LET payload_json == JsonBytes(SurfaceGroupDumpJson(surface_group))
    IN  [encrypted_payload |-> OBBEncryptor_encrypt(payload_json, platform_public_key, eph),
         ephemeral_public  |-> eph,
         calls             |-> <<"OBBEncryptor.encrypt">>]

\* encrypt_payload_selective that hands the element list to the encryption
\* engine whether or not it is empty.
encrypt_payload_selective_AlwaysEncrypts(surface_group, platform_public_key, eph, InfNan) ==
    LET public_surfaces    == get_public_surfaces(surface_group)
        encrypted_surfaces == get_encrypted_surfaces(surface_group)
        redacted_surfaces  == get_redacted_surfaces(surface_group)
        encrypted_json     == JsonBytes([surfaces |-> DumpAllPy(encrypted_surfaces, InfNan)])
    IN  [payload |->
            [encryption_mode          |-> "selective",
             public_surfaces          |-> DumpAllPy(public_surfaces, InfNan),
             redacted_surface_indices |->
                 [i \in 1..Len(redacted_surfaces) |-> redacted_surfaces[i].surface_number],
             wavelengths_nm           |-> surface_group.wavelengths_nm,
             primary_wavelength_index |-> surface_group.primary_wavelength_index,
             stop_surface             |-> surface_group.stop_surface,
             field_type               |-> surface_group.field_type,
             max_field                |-> surface_group.max_field,
             encrypted_surfaces_data  |->
                 <<OBBEncryptor_encrypt(encrypted_json, platform_public_key, eph)>>],
         ephemeral_public |-> eph,
         calls |-> <<"OBBEncryptor.encrypt">>]

\* encrypt_payload_selective that files the Redacted elements with the
\* Public ones.
encrypt_payload_selective_StoresRedacted(surface_group, platform_public_key, eph, InfNan) ==
    LET public_surfaces    == get_public_surfaces(surface_group)
        encrypted_surfaces == get_encrypted_surfaces(surface_group)
        redacted_surfaces  == get_redacted_surfaces(surface_group)
        encrypted_json     == JsonBytes([surfaces |-> DumpAllPy(encrypted_surfaces, InfNan)])
    IN  [payload |->
            [encryption_mode          |-> "selective",
             public_surfaces          |-> DumpAllPy(public_surfaces \o redacted_surfaces, InfNan),
             redacted_surface_indices |-> <<>>,
             wavelengths_nm           |-> surface_group.wavelengths_nm,
             primary_wavelength_index |-> surface_group.primary_wavelength_index,
             stop_surface             |-> surface_group.stop_surface,
             field_type               |-> surface_group.field_type,
             max_field                |-> surface_group.max_field,
             encrypted_surfaces_data  |->
                 IF encrypted_surfaces # <<>>
                 THEN <<OBBEncryptor_encrypt(encrypted_json, platform_public_key, eph)>>
                 ELSE <<>>],
         ephemeral_public |-> eph,
         calls |-> IF encrypted_surfaces # <<>>
                   THEN <<"OBBEncryptor.encrypt">>
                   ELSE <<"generate_ephemeral_keypair">>]

\* encrypt_payload_selective(surface_group, platform_public_key).
\* encrypted_surfaces_data is <<>> for the empty string and <<c>> for the
\* base64 text of the ciphertext c.
encrypt_payload_selective(surface_group, platform_public_key, eph, InfNan) ==
    LET public_surfaces    == get_public_surfaces(surface_group)
        encrypted_surfaces == get_encrypted_surfaces(surface_group)
        redacted_surfaces  == get_redacted_surfaces(surface_group)
        encrypted_json     == JsonBytes([surfaces |-> DumpAllPy(encrypted_surfaces, InfNan)])
    IN  [payload |->
            [encryption_mode          |-> "selective",
             public_surfaces          |-> DumpAllPy(public_surfaces, InfNan),
             redacted_surface_indices |->
                 [i \in 1..Len(redacted_surfaces) |-> redacted_surfaces[i].surface_number],
             wavelengths_nm           |-> surface_group.wavelengths_nm,
             primary_wavelength_index |-> surface_group.primary_wavelength_index,
             stop_surface             |-> surface_group.stop_surface,
             field_type               |-> surface_group.field_type,
             max_field                |-> surface_group.max_field,
             encrypted_surfaces_data  |->
                 IF encrypted_surfaces # <<>>
                 THEN <<OBBEncryptor_encrypt(encrypted_json, platform_public_key, eph)>>
                 ELSE <<>>],
         ephemeral_public |-> eph,
         calls |-> IF encrypted_surfaces # <<>>
                   THEN <<"OBBEncryptor.encrypt">>
                   ELSE <<"generate_ephemeral_keypair">>]

\* decrypt_payload(encrypted_payload, ephemeral_public_key, platform_private_key).
decrypt_payload(encrypted_payload, ephemeral_public_key, platform_private_key) ==
    LET d == OBBEncryptor_decrypt(encrypted_payload, ephemeral_public_key,
                                  platform_private_key)
    IN  After(<<"OBBEncryptor.decrypt">>,
              IF d.exc # "none" THEN Raise(d.exc)
              ELSE IF d.pt.dmg # "none" THEN Raise("ValidationError")
              ELSE SurfaceGroupValidateJson(d.pt.dict))

\* list.sort(key=lambda s: s.surface_number): a stable sort.
RECURSIVE InsertByNumber(_, _)
InsertByNumber(sorted, s) ==
    IF sorted = <<>> THEN <<s>>
    ELSE IF sorted[Len(sorted)].surface_number <= s.surface_number
         THEN Append(sorted, s)
         ELSE Append(InsertByNumber(SubSeq(sorted, 1, Len(sorted) - 1), s),
                     sorted[Len(sorted)])

RECURSIVE SortByNumber(_)
SortByNumber(ss) ==
    IF ss = <<>> THEN <<>>
    ELSE InsertByNumber(SortByNumber(SubSeq(ss, 1, Len(ss) - 1)), ss[Len(ss)])

AllValid(js) == \A i \in 1..Len(js) : SurfaceValid(js[i])

\* The declared fields of Surface.
SurfaceFieldNames ==
    {"surface_number", "surface_type", "radius", "thickness", "semi_diameter",
     "conic", "material", "aspheric_coeffs", "decenter_x", "decenter_y",
     "tilt_x", "tilt_y", "visibility"}

\* The placeholder of a redacted ordinal:
\* Surface(surface_number=idx, surface_type="standard",
\*         visibility=REDACTED, comment=f"Surface {idx} (redacted)").
\* The model has no extra="allow": a keyword that names no declared field
\* is ignored, a declared field without keyword takes its default.
RedactedPlaceholder(idx) ==
    LET kwargs == [surface_number |-> idx,
                   surface_type   |-> "standard",
                   visibility     |-> REDACTED,
                   comment        |-> <<"Surface", idx, "(redacted)">>]
        defaults == DefaultSurface(0, PUBLIC)
    IN  [f \in SurfaceFieldNames |->
            IF f \in DOMAIN kwargs THEN kwargs[f] ELSE defaults[f]]

\* decrypt_payload_selective that goes on without the encrypted elements
\* when their decryption fails.
decrypt_payload_selective_SkipsFailedBlob(payload_dict, ephemeral_public_key, platform_private_key) ==
    LET public_dicts       == Get(payload_dict, "public_surfaces", <<>>)
        redacted_indices   == Get(payload_dict, "redacted_surface_indices", <<>>)
        encrypted_data_b64 == Get(payload_dict, "encrypted_surfaces_data", <<>>)
        d == OBBEncryptor_decrypt(encrypted_data_b64[1], ephemeral_public_key,
                                  platform_private_key)
        encrypted_surfaces ==
            IF encrypted_data_b64 # <<>> /\ d.exc = "none"
            THEN ValidateAll(d.pt.dict.surfaces)
            ELSE <<>>
        redacted_surfaces ==
            [i \in 1..Len(redacted_indices) |-> RedactedPlaceholder(redacted_indices[i])]
        all_surfaces ==
            ValidateAll(public_dicts)
                \o encrypted_surfaces \o redacted_surfaces
        calls == IF encrypted_data_b64 # <<>> THEN <<"OBBEncryptor.decrypt">> ELSE <<>>
    IN  IF ~IsJsonObject(payload_dict) THEN Raise("AttributeError")
        ELSE IF ~AllValid(public_dicts) THEN Raise("ValidationError")
        ELSE IF encrypted_data_b64 # <<>> /\ encrypted_data_b64[1].dmg = "notbase64"
             THEN Raise("binascii.Error")
        ELSE IF encrypted_data_b64 # <<>> /\ d.exc = "none" /\ d.pt.dmg # "none"
             THEN After(calls, Raise(d.pt.dmg))
        ELSE IF encrypted_data_b64 # <<>> /\ d.exc = "none" /\ ~AllValid(d.pt.dict.surfaces)
             THEN After(calls, Raise("ValidationError"))
        ELSE IF \E i \in 1..Len(redacted_indices) : redacted_indices[i] < 0
             THEN After(calls, Raise("ValidationError"))
        ELSE IF all_surfaces = <<>> THEN After(calls, Raise("ValidationError"))
        ELSE IF ~SurfaceGroupFieldsValid(Get(payload_dict, "wavelengths_nm", <<"550.0">>),
                                         Get(payload_dict, "primary_wavelength_index", 0))
             THEN After(calls, Raise("ValidationError"))
        ELSE IF ~FieldSpecValid(Get(payload_dict, "field_type", "None"),
                                Get(payload_dict, "max_field", "None"))
             THEN After(calls, Raise("ValidationError"))
        ELSE After(calls,
                   Ok(SurfaceGroup(SortByNumber(all_surfaces),
                                   Get(payload_dict, "wavelengths_nm", <<"550.0">>),
                                   Get(payload_dict, "primary_wavelength_index", 0),
                                   Get(payload_dict, "stop_surface", "None"),
                                   Get(payload_dict, "field_type", "None"),
                                   Get(payload_dict, "max_field", "None"))))

\* decrypt_payload_selective(payload_dict, ephemeral_public_key,
\* platform_private_key).
decrypt_payload_selective(payload_dict, ephemeral_public_key, platform_private_key) ==
    LET public_dicts       == Get(payload_dict, "public_surfaces", <<>>)
        redacted_indices   == Get(payload_dict, "redacted_surface_indices", <<>>)
        encrypted_data_b64 == Get(payload_dict, "encrypted_surfaces_data", <<>>)
        d == OBBEncryptor_decrypt(encrypted_data_b64[1], ephemeral_public_key,
                                  platform_private_key)
        encrypted_surfaces ==
            IF encrypted_data_b64 # <<>>
            THEN ValidateAll(d.pt.dict.surfaces)
            ELSE <<>>
        redacted_surfaces ==
            [i \in 1..Len(redacted_indices) |-> RedactedPlaceholder(redacted_indices[i])]
        all_surfaces ==
            ValidateAll(public_dicts)
                \o encrypted_surfaces \o redacted_surfaces
        calls == IF encrypted_data_b64 # <<>> THEN <<"OBBEncryptor.decrypt">> ELSE <<>>
    IN  IF ~IsJsonObject(payload_dict) THEN Raise("AttributeError")
        ELSE IF ~AllValid(public_dicts) THEN Raise("ValidationError")
        ELSE IF encrypted_data_b64 # <<>> /\ encrypted_data_b64[1].dmg = "notbase64"
             THEN Raise("binascii.Error")
        ELSE IF encrypted_data_b64 # <<>> /\ d.exc # "none"
             THEN After(calls, Raise(d.exc))
        ELSE IF encrypted_data_b64 # <<>> /\ d.pt.dmg # "none"
             THEN After(calls, Raise(d.pt.dmg))
        ELSE IF encrypted_data_b64 # <<>> /\ ~AllValid(d.pt.dict.surfaces)
             THEN After(calls, Raise("ValidationError"))
        ELSE IF \E i \in 1..Len(redacted_indices) : redacted_indices[i] < 0
             THEN After(calls, Raise("ValidationError"))
        ELSE IF all_surfaces = <<>> THEN After(calls, Raise("ValidationError"))
        ELSE IF ~SurfaceGroupFieldsValid(Get(payload_dict, "wavelengths_nm", <<"550.0">>),
                                         Get(payload_dict, "primary_wavelength_index", 0))
             THEN After(calls, Raise("ValidationError"))
        ELSE IF ~FieldSpecValid(Get(payload_dict, "field_type", "None"),
                                Get(payload_dict, "max_field", "None"))
             THEN After(calls, Raise("ValidationError"))
        ELSE After(calls,
                   Ok(SurfaceGroup(SortByNumber(all_surfaces),
                                   Get(payload_dict, "wavelengths_nm", <<"550.0">>),
                                   Get(payload_dict, "primary_wavelength_index", 0),
                                   Get(payload_dict, "stop_surface", "None"),
                                   Get(payload_dict, "field_type", "None"),
                                   Get(payload_dict, "max_field", "None"))))

\* sign_payload(encrypted_payload, vendor_private_key).
sign_payload(encrypted_payload, vendor_private_key) ==
    OBBSigner_sign(encrypted_payload, vendor_private_key)

\* verify_payload_signature(encrypted_payload, signature_b64, vendor_public_key).
verify_payload_signature(encrypted_payload, signature_b64, vendor_public_key) ==
    OBBSigner_verify(encrypted_payload, signature_b64, vendor_public_key)

\* -------------------------------------------------------- models/metadata.py
\* OBBMetadata(...): the caller's metadata before a write; created_at and
\* signature at their defaults (None, "").
OBBMetadata(vendor_id, name, efl_mm, na, diameter_mm, spectral_range_nm, num_surfaces) ==
    [version           |-> "1.0",
     vendor_id         |-> vendor_id,
     name              |-> name,
     efl_mm            |-> efl_mm,
     na                |-> na,
     diameter_mm       |-> diameter_mm,
     spectral_range_nm |-> spectral_range_nm,
     num_surfaces      |-> num_surfaces,
     created_at        |-> "None",
     signature         |-> <<>>,
     description       |-> "None",
     part_number       |-> "None"]

\* The metadata the caller supplies with a design (the figures of the
\* class docstring's example).
MetadataFor(surface_group) ==
    OBBMetadata("test-vendor", "AC254-050-A", "50.0", "0.25", "25.4",
                <<"400.0", "700.0">>, Len(surface_group.surfaces))

NoMetadata == OBBMetadata("none", "none", "none", "none", "none", <<>>, 0)

\* ------------------------------------------------------ formats/obb_header.py
\* build_header(metadata, ephemeral_public_key): the flat record of the
\* metadata fields and the ephemeral public key, an infinite focal length
\* stored as the sentinel.
build_header(metadata, ephemeral_public_key) ==
    [metadata |-> [metadata EXCEPT !.efl_mm = serialize_radius(@)],
     ephemeral_public_key |-> ephemeral_public_key]

serialize_header(header) == JsonBytes(header)

deserialize_header(header_bytes) ==
    IF header_bytes.form = "json" /\ header_bytes.dmg = "none"
    THEN [exc |-> "none", header |-> header_bytes.dict]
    ELSE [exc |-> "InvalidOBBFileError", header |-> <<>>]

extract_metadata(header) == [header.metadata EXCEPT !.efl_mm = parse_radius(@)]

extract_ephemeral_key(header) == header.ephemeral_public_key

\* -------------------------------------------------- formats/obb_constants.py
OBB_MAGIC == "OBB_MAGIC"

\* ---------------------------------------------------- serialization/binary.py
\* BinaryReader over the sections of a file: read_and_verify_magic compares
\* the first bytes with the magic, read_length_prefixed returns the header
\* bytes or fails when fewer bytes remain than the length declares, and
\* read_rest returns what follows, to the end of the file.
read_and_verify_magic(file, magic) == file.magic = magic

read_length_prefixed(file) ==
    IF file.header.dmg = "truncated"
    THEN [exc |-> "InvalidOBBFileError", bytes |-> EmptyBytes]
    ELSE [exc |-> "none", bytes |-> file.header]

read_rest(file) == file.payload

\* -------------------------------------------------------- formats/obb_file.py
\* The file a writer leaves: write_magic, write_length_prefixed(header),
\* write_bytes(payload).
Container(header_bytes, payload_bytes) ==
    [magic |-> OBB_MAGIC, header |-> header_bytes, payload |-> payload_bytes]

\* datetime.utcnow()
UtcNow == "utcnow"

\* _write_to_stream that signs the plaintext JSON of the SurfaceGroup.
write_to_stream_SignsPlaintext(surface_group, metadata, vendor_private_key, platform_public_key, eph) ==
    LET enc       == encrypt_payload(surface_group, platform_public_key, eph)
        plaintext == JsonBytes(SurfaceGroupDumpJson(surface_group))
        signature == sign_payload(plaintext, vendor_private_key)
        stamped   == [metadata EXCEPT !.signature = signature,
                                      !.created_at = UtcNow]
        header_bytes == serialize_header(build_header(stamped, enc.ephemeral_public))
    IN  [stream   |-> Container(header_bytes, enc.encrypted_payload),
         metadata |-> stamped,
         signed   |-> plaintext,
         calls    |-> enc.calls \o <<"OBBSigner.sign">>]

\* _write_to_stream that leaves a creation time the caller supplied.
write_to_stream_KeepsCreatedAt(surface_group, metadata, vendor_private_key, platform_public_key, eph) ==
    LET enc       == encrypt_payload(surface_group, platform_public_key, eph)
        signature == sign_payload(enc.encrypted_payload, vendor_private_key)
        stamped   == [metadata EXCEPT !.signature = signature,
                                      !.created_at = IF @ = "None" THEN UtcNow ELSE @]
        header_bytes == serialize_header(build_header(stamped, enc.ephemeral_public))
    IN  [stream   |-> Container(header_bytes, enc.encrypted_payload),
         metadata |-> stamped,
         signed   |-> enc.encrypted_payload,
         calls    |-> enc.calls \o <<"OBBSigner.sign">>]

\* OBBWriter._write_to_stream: the stream written, the metadata object as the
\* call leaves it, and the bytes it handed to sign_payload.
write_to_stream(surface_group, metadata, vendor_private_key, platform_public_key, eph) ==
    LET enc       == encrypt_payload(surface_group, platform_public_key, eph)
        signature == sign_payload(enc.encrypted_payload, vendor_private_key)
        stamped   == [metadata EXCEPT !.signature = signature,
                                      !.created_at = UtcNow]
        header_bytes == serialize_header(build_header(stamped, enc.ephemeral_public))
    IN  [stream   |-> Container(header_bytes, enc.encrypted_payload),
         metadata |-> stamped,
         signed   |-> enc.encrypted_payload,
         calls    |-> enc.calls \o <<"OBBSigner.sign">>]

\* OBBWriter._write_selective_to_stream.
write_selective_to_stream(surface_group, metadata, vendor_private_key, platform_public_key, eph, InfNan) ==
    LET enc == encrypt_payload_selective(surface_group, platform_public_key,
                                         eph, InfNan)
        payload_bytes == JsonBytes(enc.payload)
        signature == sign_payload(payload_bytes, vendor_private_key)
        stamped   == [metadata EXCEPT !.signature = signature,
                                      !.created_at = UtcNow]
        header_bytes == serialize_header(build_header(stamped, enc.ephemeral_public))
    IN  [stream   |-> Container(header_bytes, payload_bytes),
         metadata |-> stamped,
         signed   |-> payload_bytes,
         calls    |-> enc.calls \o <<"OBBSigner.sign">>]

\* What a read call ends with: the exception or the (metadata, design) pair,
\* the crypto calls it made in order, the bytes it handed to verification
\* (<<>> when it handed none), and the steps of the opening it made.
FramingSteps ==
    <<"read_and_verify_magic", "read_length_prefixed", "deserialize_header",
      "read_rest", "extract_metadata", "extract_ephemeral_key">>

ReadResult(r, metadata, calls, verified) ==
    [exc      |-> r.exc,
     design   |-> r.val,
     metadata |-> IF r.exc = "none" THEN metadata ELSE NoMetadata,
     calls    |-> calls \o r.calls,
     verified |-> verified,
     framing  |-> FramingSteps]

\* A read that ended in the opening c.
FramingError(c) ==
    [ReadResult(Raise(c.exc), NoMetadata, <<>>, <<>>) EXCEPT !.framing = c.steps]

\* The opening without the magic check: whatever the first bytes are, the
\* header is read and decoded.
ReadContainer_SkipsMagic(file) ==
    LET h == deserialize_header(read_length_prefixed(file).bytes)
    IN  IF read_length_prefixed(file).exc # "none"
        THEN [exc |-> read_length_prefixed(file).exc, metadata |-> NoMetadata,
              ephemeral_public |-> "none", payload |-> <<>>,
              steps |-> SubSeq(FramingSteps, 2, 2)]
        ELSE IF h.exc # "none"
        THEN [exc |-> h.exc, metadata |-> NoMetadata,
              ephemeral_public |-> "none", payload |-> <<>>,
              steps |-> SubSeq(FramingSteps, 2, 3)]
        ELSE [exc |-> "none", metadata |-> extract_metadata(h.header),
              ephemeral_public |-> extract_ephemeral_key(h.header),
              payload |-> read_rest(file),
              steps |-> FramingSteps]

\* The opening every reader shares: read_and_verify_magic,
\* read_length_prefixed, deserialize_header, read_rest, extract_metadata,
\* extract_ephemeral_key.
ReadContainer(file) ==
    LET h == deserialize_header(read_length_prefixed(file).bytes)
    IN  IF ~read_and_verify_magic(file, OBB_MAGIC)
        THEN [exc |-> "InvalidMagicBytesError", metadata |-> NoMetadata,
              ephemeral_public |-> "none", payload |-> <<>>,
              steps |-> SubSeq(FramingSteps, 1, 1)]
        ELSE IF read_length_prefixed(file).exc # "none"
        THEN [exc |-> read_length_prefixed(file).exc, metadata |-> NoMetadata,
              ephemeral_public |-> "none", payload |-> <<>>,
              steps |-> SubSeq(FramingSteps, 1, 2)]
        ELSE IF h.exc # "none"
        THEN [exc |-> h.exc, metadata |-> NoMetadata,
              ephemeral_public |-> "none", payload |-> <<>>,
              steps |-> SubSeq(FramingSteps, 1, 3)]
        ELSE [exc |-> "none", metadata |-> extract_metadata(h.header),
              ephemeral_public |-> extract_ephemeral_key(h.header),
              payload |-> read_rest(file),
              steps |-> FramingSteps]

\* The two exceptions of decoding bytes as UTF-8 JSON.
DecodeErrors == {"UnicodeDecodeError", "JSONDecodeError"}

\* What the bytes of a ciphertext do under json.loads(bytes.decode("utf-8")):
\* one of the two errors, or (by chance) they spell a JSON value, which is
\* then no object.
CtDecodings == DecodeErrors \cup {"JSON scalar"}

\* json.loads(payload_bytes.decode("utf-8")): the value, or the exception.
\* CtDecode says what the bytes of a ciphertext do.
JsonLoads(payload_bytes, CtDecode) ==
    IF payload_bytes.form = "ciphertext"
    THEN [exc |-> IF CtDecode \in DecodeErrors THEN CtDecode ELSE "none", dict |-> <<>>]
    ELSE IF payload_bytes.form = "empty" THEN [exc |-> "JSONDecodeError", dict |-> <<>>]
    ELSE IF payload_bytes.dmg # "none" THEN [exc |-> payload_bytes.dmg, dict |-> <<>>]
    ELSE [exc |-> "none", dict |-> payload_bytes.dict]

\* read_and_decrypt with the two steps in the wrong order: the payload is
\* decrypted first and the signature looked at afterwards.
read_and_decrypt_DecryptsFirst(file, platform_private_key, vendor_public_key, verify_signature) ==
    LET c == ReadContainer(file)
        dec == After(<<"decrypt_payload">>,
                     decrypt_payload(c.payload, c.ephemeral_public, platform_private_key))
    IN  IF c.exc # "none" THEN FramingError(c)
        ELSE IF verify_signature
        THEN IF ~verify_payload_signature(c.payload, c.metadata.signature,
                                          vendor_public_key)
             THEN ReadResult(After(dec.calls \o <<"verify_payload_signature">>,
                                   Raise("InvalidSignatureError")),
                             NoMetadata, <<>>, <<c.payload>>)
             ELSE ReadResult(After(dec.calls \o <<"verify_payload_signature">>,
                                   [dec EXCEPT !.calls = <<>>]),
                             c.metadata, <<>>, <<c.payload>>)
        ELSE ReadResult(dec, c.metadata, <<>>, <<>>)

\* OBBReader.read_and_decrypt.
read_and_decrypt(file, platform_private_key, vendor_public_key, verify_signature) ==
    LET c == ReadContainer(file)
    IN  IF c.exc # "none" THEN FramingError(c)
        ELSE IF verify_signature
        THEN IF ~verify_payload_signature(c.payload, c.metadata.signature,
                                          vendor_public_key)
             THEN ReadResult(Raise("InvalidSignatureError"), NoMetadata,
                             <<"verify_payload_signature">>, <<c.payload>>)
             ELSE ReadResult(After(<<"decrypt_payload">>,
                                   decrypt_payload(c.payload, c.ephemeral_public,
                                                   platform_private_key)),
                             c.metadata, <<"verify_payload_signature">>, <<c.payload>>)
        ELSE ReadResult(After(<<"decrypt_payload">>,
                              decrypt_payload(c.payload, c.ephemeral_public,
                                              platform_private_key)),
                        c.metadata, <<>>, <<>>)

\* The decoding of read_and_decrypt_selective once the signature check has
\* passed: json.loads, then decrypt_payload_selective.
DecodeSelective(payload_bytes, ephemeral_public, platform_private_key, CtDecode) ==
    LET j == JsonLoads(payload_bytes, CtDecode)
    IN  IF j.exc # "none" THEN Raise(j.exc)
        ELSE After(<<"decrypt_payload_selective">>,
                   decrypt_payload_selective(j.dict, ephemeral_public,
                                             platform_private_key))

\* OBBReader.read_and_decrypt_selective.
read_and_decrypt_selective(file, platform_private_key, vendor_public_key, verify_signature, CtDecode) ==
    LET c == ReadContainer(file)
    IN  IF c.exc # "none" THEN FramingError(c)
        ELSE IF verify_signature
        THEN IF ~verify_payload_signature(c.payload, c.metadata.signature,
                                          vendor_public_key)
             THEN ReadResult(Raise("InvalidSignatureError"), NoMetadata,
                             <<"verify_payload_signature">>, <<c.payload>>)
             ELSE ReadResult(DecodeSelective(c.payload, c.ephemeral_public,
                                             platform_private_key, CtDecode),
                             c.metadata, <<"verify_payload_signature">>, <<c.payload>>)
        ELSE ReadResult(DecodeSelective(c.payload, c.ephemeral_public,
                                        platform_private_key, CtDecode),
                        c.metadata, <<>>, <<>>)

\* The try block of read that takes every JSON object for a selective
\* payload, whatever its mode says.
DecodeAuto_AnyObjectSelective(payload_bytes, ephemeral_public, platform_private_key, CtDecode) ==
    LET full == After(<<"decrypt_payload">>,
                      decrypt_payload(payload_bytes, ephemeral_public,
                                      platform_private_key))
        j == JsonLoads(payload_bytes, CtDecode)
        tried ==
            IF j.exc # "none" THEN Raise(j.exc)
            ELSE IF IsJsonObject(j.dict)
            THEN After(<<"decrypt_payload_selective">>,
                       decrypt_payload_selective(j.dict, ephemeral_public,
                                                 platform_private_key))
            ELSE full
    IN  IF tried.exc \in DecodeErrors THEN After(tried.calls, full) ELSE tried

\* read without the detection: every payload goes to decrypt_payload.
DecodeAuto_AlwaysFull(payload_bytes, ephemeral_public, platform_private_key, CtDecode) ==
    After(<<"decrypt_payload">>,
          decrypt_payload(payload_bytes, ephemeral_public, platform_private_key))

\* The decoding of read once the signature check has passed: the try block
\* with its except (json.JSONDecodeError, UnicodeDecodeError) fallback.
DecodeAuto(payload_bytes, ephemeral_public, platform_private_key, CtDecode) ==
    LET full == After(<<"decrypt_payload">>,
                      decrypt_payload(payload_bytes, ephemeral_public,
                                      platform_private_key))
        j == JsonLoads(payload_bytes, CtDecode)
        tried ==
            IF j.exc # "none" THEN Raise(j.exc)
            ELSE IF IsJsonObject(j.dict) /\ j.dict.encryption_mode = "selective"
            THEN After(<<"decrypt_payload_selective">>,
                       decrypt_payload_selective(j.dict, ephemeral_public,
                                                 platform_private_key))
            ELSE full
    IN  IF tried.exc \in DecodeErrors THEN After(tried.calls, full) ELSE tried

\* read that calls the verification and drops its verdict.
read_DropsVerdict(file, platform_private_key, vendor_public_key, verify_signature, CtDecode) ==
    LET c == ReadContainer(file)
    IN  IF c.exc # "none" THEN FramingError(c)
        ELSE IF verify_signature
        THEN ReadResult(DecodeAuto(c.payload, c.ephemeral_public,
                                   platform_private_key, CtDecode),
                        c.metadata, <<"verify_payload_signature">>, <<c.payload>>)
        ELSE ReadResult(DecodeAuto(c.payload, c.ephemeral_public,
                                   platform_private_key, CtDecode),
                        c.metadata, <<>>, <<>>)

\* OBBReader.read.
read(file, platform_private_key, vendor_public_key, verify_signature, CtDecode) ==
    LET c == ReadContainer(file)
    IN  IF c.exc # "none" THEN FramingError(c)
        ELSE IF verify_signature
        THEN IF ~verify_payload_signature(c.payload, c.metadata.signature,
                                          vendor_public_key)
             THEN ReadResult(Raise("InvalidSignatureError"), NoMetadata,
                             <<"verify_payload_signature">>, <<c.payload>>)
             ELSE ReadResult(DecodeAuto(c.payload, c.ephemeral_public,
                                        platform_private_key, CtDecode),
                             c.metadata, <<"verify_payload_signature">>, <<c.payload>>)
        ELSE ReadResult(DecodeAuto(c.payload, c.ephemeral_public,
                                   platform_private_key, CtDecode),
                        c.metadata, <<>>, <<>>)

\* read_metadata that reads and decodes the header before it looks at
\* the magic.
read_metadata_HeaderFirst(file) ==
    LET h == deserialize_header(read_length_prefixed(file).bytes)
    IN  IF read_length_prefixed(file).exc # "none"
        THEN FramingError([exc |-> read_length_prefixed(file).exc,
                           steps |-> SubSeq(FramingSteps, 2, 2)])
        ELSE IF h.exc # "none"
        THEN FramingError([exc |-> h.exc, steps |-> SubSeq(FramingSteps, 2, 3)])
        ELSE IF ~read_and_verify_magic(file, OBB_MAGIC)
        THEN FramingError([exc |-> "InvalidMagicBytesError",
                           steps |-> SubSeq(FramingSteps, 2, 3) \o SubSeq(FramingSteps, 1, 1)])
        ELSE [ReadResult(Ok(NoDesign), extract_metadata(h.header), <<>>, <<>>)
                 EXCEPT !.framing = SubSeq(FramingSteps, 1, 3) \o <<"extract_metadata">>]

\* read_metadata that goes on to the payload and rejects a file without
\* one.
read_metadata_NeedsPayload(file) ==
    LET h == deserialize_header(read_length_prefixed(file).bytes)
    IN  IF ~read_and_verify_magic(file, OBB_MAGIC)
        THEN FramingError([exc |-> "InvalidMagicBytesError",
                           steps |-> SubSeq(FramingSteps, 1, 1)])
        ELSE IF read_length_prefixed(file).exc # "none"
        THEN FramingError([exc |-> read_length_prefixed(file).exc,
                           steps |-> SubSeq(FramingSteps, 1, 2)])
        ELSE IF h.exc # "none"
        THEN FramingError([exc |-> h.exc, steps |-> SubSeq(FramingSteps, 1, 3)])
        ELSE IF read_rest(file) = EmptyBytes
        THEN FramingError([exc |-> "InvalidOBBFileError",
                           steps |-> SubSeq(FramingSteps, 1, 4)])
        ELSE [ReadResult(Ok(NoDesign), extract_metadata(h.header), <<>>, <<>>)
                 EXCEPT !.framing = SubSeq(FramingSteps, 1, 5)]

\* OBBReader.read_metadata: magic, header, extract_metadata.  It takes no
\* key and does not read on.
read_metadata(file) ==
    LET h == deserialize_header(read_length_prefixed(file).bytes)
    IN  IF ~read_and_verify_magic(file, OBB_MAGIC)
        THEN FramingError([exc |-> "InvalidMagicBytesError",
                           steps |-> SubSeq(FramingSteps, 1, 1)])
        ELSE IF read_length_prefixed(file).exc # "none"
        THEN FramingError([exc |-> read_length_prefixed(file).exc,
                           steps |-> SubSeq(FramingSteps, 1, 2)])
        ELSE IF h.exc # "none"
        THEN FramingError([exc |-> h.exc, steps |-> SubSeq(FramingSteps, 1, 3)])
        ELSE [ReadResult(Ok(NoDesign), extract_metadata(h.header), <<>>, <<>>)
                 EXCEPT !.framing = SubSeq(FramingSteps, 1, 3) \o <<"extract_metadata">>]

\* ------------------------------------------------------------------- state
\* file       the container at the output path (NoFile before the write)
\* written    the last write call: its mode, its design, the stream it
\*            produced, the metadata object as it left it, the bytes it
\*            signed, the crypto-engine calls it made in order
\* lastRead   the last read call and how it ended (NoRead after the file
\*            changed)
\* generated  how many ephemeral key pairs have been generated
\* disk       the bytes at a path, for the byte-level view of the framing:
\*            whether the path can be opened, its bytes, and the header and
\*            payload bytes the writer was given
\* probe      the last byte-level operation on the path and what it gave
VARIABLES file, written, lastRead, generated, disk, probe, caller, threads, call, registry

vars == <<file, written, lastRead, generated, disk, probe, caller, threads, call, registry>>

NoFile == [magic |-> "absent", header |-> <<>>, payload |-> <<>>]

NoWrite == [mode |-> "none", design |-> NoDesign, stream |-> NoFile,
            metadata |-> NoMetadata, signed |-> <<>>, calls |-> <<>>]

NoRead == [op |-> "none", platform_key |-> "none", vendor_key |-> "none",
           verify_signature |-> FALSE, exc |-> "none", design |-> NoDesign,
           metadata |-> NoMetadata, calls |-> <<>>, verified |-> <<>>,
           framing |-> <<>>]

NoDisk == [state |-> "missing", bytes |-> <<>>, origin |-> "none",
           header |-> <<>>, payload |-> <<>>]

NoProbe == [op |-> "none", exc |-> "none", result |-> FALSE, consumed |-> 0,
            header |-> <<>>, payload |-> <<>>]

\* The caller of the writer before any call: no metadata object built, no
\* container produced.
NoCaller == [metadata |-> NoMetadata, before |-> NoMetadata,
             surface_group |-> NoDesign, outputs |-> <<>>]

NoThreads == <<>>

NoCall == [op |-> "none"]

\* parsers/registry.py: _PARSER_REGISTRY = {}
EmptyRegistry == [ext \in {} |-> "none"]

Init ==
    /\ file = NoFile
    /\ written = NoWrite
    /\ lastRead = NoRead
    /\ generated = 0
    /\ disk = NoDisk
    /\ probe = NoProbe
    /\ caller = NoCaller
    /\ threads = NoThreads
    /\ call = NoCall
    /\ registry = EmptyRegistry

\* OBBWriter.write(output_path, surface_group, metadata, vendor_private_key,
\* platform_public_key), the vendor writing for the platform.
Write(surface_group) ==
    /\ file = NoFile
    /\ LET w == write_to_stream(surface_group, MetadataFor(surface_group),
                                VendorKey, PlatformKey, generated + 1)
       IN  /\ file' = w.stream
           /\ written' = [mode |-> "full", design |-> surface_group,
                          stream |-> w.stream, metadata |-> w.metadata,
                          signed |-> w.signed, calls |-> w.calls]
    /\ generated' = generated + 1
    /\ lastRead' = NoRead
    /\ UNCHANGED <<disk, probe, caller, threads, call, registry>>

\* OBBWriter.write_selective(...), on a build InfNan of the JSON writer.
WriteSelective(surface_group, InfNan) ==
    /\ file = NoFile
    /\ LET w == write_selective_to_stream(surface_group, MetadataFor(surface_group),
                                          VendorKey, PlatformKey, generated + 1, InfNan)
       IN  /\ file' = w.stream
           /\ written' = [mode |-> "selective", design |-> surface_group,
                          stream |-> w.stream, metadata |-> w.metadata,
                          signed |-> w.signed, calls |-> w.calls]
    /\ generated' = generated + 1
    /\ lastRead' = NoRead
    /\ UNCHANGED <<disk, probe, caller, threads, call, registry>>

\* The file is as the writer left it.
Intact == file # NoFile /\ file = written.stream

\* Somebody changes one byte of the payload section of the written file.
\* A changed byte of a ciphertext leaves a ciphertext that no longer
\* authenticates.
FlipCiphertextByte ==
    /\ Intact
    /\ file.payload.form = "ciphertext"
    /\ file' = [file EXCEPT !.payload.dmg = "flipped"]
    /\ lastRead' = NoRead
    /\ UNCHANGED <<written, generated>>
    /\ UNCHANGED <<disk, probe, caller, threads, call, registry>>

\* A changed byte that leaves the selective payload no UTF-8 text, or no
\* JSON text.
BreakPayloadText(e) ==
    /\ Intact
    /\ file.payload.form = "json"
    /\ file' = [file EXCEPT !.payload.dmg = e]
    /\ lastRead' = NoRead
    /\ UNCHANGED <<written, generated>>
    /\ UNCHANGED <<disk, probe, caller, threads, call, registry>>

\* A changed letter of the mode string.
FlipModeChar ==
    /\ Intact
    /\ file.payload.form = "json"
    /\ file' = [file EXCEPT !.payload.dict.encryption_mode = "selectivf"]
    /\ lastRead' = NoRead
    /\ UNCHANGED <<written, generated>>
    /\ UNCHANGED <<disk, probe, caller, threads, call, registry>>

\* A changed character of the base64 text: another letter of the alphabet
\* (the blob decodes to other bytes) or a character outside it.
FlipBlobChar(how) ==
    /\ Intact
    /\ file.payload.form = "json"
    /\ file.payload.dict.encrypted_surfaces_data # <<>>
    /\ file' = [file EXCEPT !.payload.dict.encrypted_surfaces_data[1].dmg = how]
    /\ lastRead' = NoRead
    /\ UNCHANGED <<written, generated>>
    /\ UNCHANGED <<disk, probe, caller, threads, call, registry>>

\* A changed digit of a redacted ordinal.
ChangeRedactedIndex(i, n) ==
    /\ Intact
    /\ file.payload.form = "json"
    /\ i \in 1..Len(file.payload.dict.redacted_surface_indices)
    /\ file.payload.dict.redacted_surface_indices[i] # n
    /\ file' = [file EXCEPT !.payload.dict.redacted_surface_indices[i] = n]
    /\ lastRead' = NoRead
    /\ UNCHANGED <<written, generated>>
    /\ UNCHANGED <<disk, probe, caller, threads, call, registry>>

\* A changed digit of the ordinal of a public element.
ChangePublicNumber(i, n) ==
    /\ Intact
    /\ file.payload.form = "json"
    /\ i \in 1..Len(file.payload.dict.public_surfaces)
    /\ file.payload.dict.public_surfaces[i].surface_number # n
    /\ file' = [file EXCEPT !.payload.dict.public_surfaces[i].surface_number = n]
    /\ lastRead' = NoRead
    /\ UNCHANGED <<written, generated>>
    /\ UNCHANGED <<disk, probe, caller, threads, call, registry>>

\* The container comes from a producer whose encrypted element list is no
\* JSON text (not UTF-8, or not JSON): a ciphertext for the platform under
\* a key pair of the producer's, its public half in the header, and, when
\* the producer is the vendor, the signature over the new payload.
ForgeBlob(e, resign) ==
    /\ Intact
    /\ file.payload.form = "json"
    /\ LET blob == OBBEncryptor_encrypt([form |-> "text", dmg |-> e],
                                        PlatformKey, generated + 1)
           payload == [file.payload EXCEPT !.dict.encrypted_surfaces_data = <<blob>>]
       IN  file' = [file EXCEPT
                       !.payload = payload,
                       !.header.dict.ephemeral_public_key = generated + 1,
                       !.header.dict.metadata.signature =
                           IF resign THEN sign_payload(payload, VendorKey) ELSE @]
    /\ generated' = generated + 1
    /\ lastRead' = NoRead
    /\ UNCHANGED written
    /\ UNCHANGED <<disk, probe, caller, threads, call, registry>>

\* The payload section is cut off the file, or replaced by the JSON text of
\* an array.
PayloadReplacements == {EmptyBytes, JsonArray}

ReplacePayload(p) ==
    /\ Intact
    /\ file' = [file EXCEPT !.payload = p]
    /\ lastRead' = NoRead
    /\ UNCHANGED <<written, generated>>
    /\ UNCHANGED <<disk, probe, caller, threads, call, registry>>

\* The file ends inside its header (fewer bytes follow the length field
\* than it declares, and no payload), or a header byte is changed so that
\* the header no longer decodes.
HeaderDamages == {"truncated", "undecodable"}

BreakHeader(k) ==
    /\ Intact
    /\ file' = [file EXCEPT !.header.dmg = k,
                            !.payload = IF k = "truncated" THEN EmptyBytes ELSE @]
    /\ lastRead' = NoRead
    /\ UNCHANGED <<written, generated>>
    /\ UNCHANGED <<disk, probe, caller, threads, call, registry>>

\* One of the first four bytes is changed, in a file that is otherwise as
\* written or has a broken header.
AlteredMagic == "not OBB_MAGIC"

FlipMagicByte ==
    /\ file # NoFile
    /\ file.magic = OBB_MAGIC
    /\ file.header = written.stream.header \/ file.header.dmg # "none"
    /\ file.header = written.stream.header => file.payload = written.stream.payload
    /\ file' = [file EXCEPT !.magic = AlteredMagic]
    /\ lastRead' = NoRead
    /\ UNCHANGED <<written, generated>>
    /\ UNCHANGED <<disk, probe, caller, threads, call, registry>>

\* Somebody alters one of the descriptive figures of the header and leaves
\* the rest of the file alone.
HeaderFields == {"efl_mm", "na", "diameter_mm", "spectral_range_nm"}

AlteredValue(f) ==
    CASE f = "efl_mm" -> "99.0"
      [] f = "na" -> "0.5"
      [] f = "diameter_mm" -> "50.8"
      [] f = "spectral_range_nm" -> <<"400.0", "900.0">>

AlterHeaderField(f) ==
    /\ Intact
    /\ file' = [file EXCEPT !.header.dict.metadata[f] = AlteredValue(f)]
    /\ lastRead' = NoRead
    /\ UNCHANGED <<written, generated>>
    /\ UNCHANGED <<disk, probe, caller, threads, call, registry>>

ReadCall(op, platform_private_key, vendor_public_key, verify_signature, r) ==
    [op |-> op, platform_key |-> platform_private_key,
     vendor_key |-> vendor_public_key, verify_signature |-> verify_signature,
     exc |-> r.exc, design |-> r.design, metadata |-> r.metadata,
     calls |-> r.calls, verified |-> r.verified, framing |-> r.framing]

\* A read may start: there is a file, and no read of this file is on record
\* (a read changes nothing but the record, so one read per file covers any
\* sequence of them).
CanRead == file # NoFile /\ lastRead = NoRead

\* The keys a reader may hold.  The vendor key is only looked at when the
\* signature is verified: calls that skip verification pass the vendor's.
ReaderKeys(verify_signature) ==
    {<<p, v>> : p \in {PlatformKey, OtherKey},
                v \in IF verify_signature THEN {VendorKey, OtherKey} ELSE {VendorKey}}

ReadAndDecrypt(k, verify_signature) ==
    /\ CanRead
    /\ lastRead' = ReadCall("read_and_decrypt", k[1], k[2], verify_signature,
                            read_and_decrypt(file, k[1], k[2], verify_signature))
    /\ UNCHANGED <<file, written, generated>>
    /\ UNCHANGED <<disk, probe, caller, threads, call, registry>>

ReadAndDecryptSelective(k, verify_signature, CtDecode) ==
    /\ CanRead
    /\ lastRead' = ReadCall("read_and_decrypt_selective", k[1], k[2], verify_signature,
                            read_and_decrypt_selective(file, k[1], k[2],
                                                       verify_signature, CtDecode))
    /\ UNCHANGED <<file, written, generated>>
    /\ UNCHANGED <<disk, probe, caller, threads, call, registry>>

Read(k, verify_signature, CtDecode) ==
    /\ CanRead
    /\ lastRead' = ReadCall("read", k[1], k[2], verify_signature,
                            read(file, k[1], k[2], verify_signature, CtDecode))
    /\ UNCHANGED <<file, written, generated>>
    /\ UNCHANGED <<disk, probe, caller, threads, call, registry>>

ReadMetadata ==
    /\ CanRead
    /\ lastRead' = ReadCall("read_metadata", "none", "none", FALSE, read_metadata(file))
    /\ UNCHANGED <<file, written, generated>>
    /\ UNCHANGED <<disk, probe, caller, threads, call, registry>>

Next ==
    \/ \E d \in Designs : Write(d)
    \/ \E d \in Designs, b \in InfNanBuilds : WriteSelective(d, b)
    \/ FlipCiphertextByte
    \/ \E e \in DecodeErrors : BreakPayloadText(e)
    \/ FlipModeChar
    \/ \E how \in {"flipped", "notbase64"} : FlipBlobChar(how)
    \/ \E i \in 1..MaxSurfaces, n \in SurfaceNumbers : ChangeRedactedIndex(i, n)
    \/ \E i \in 1..MaxSurfaces, n \in SurfaceNumbers : ChangePublicNumber(i, n)
    \/ \E f \in HeaderFields : AlterHeaderField(f)
    \/ \E e \in DecodeErrors, resign \in BOOLEAN : ForgeBlob(e, resign)
    \/ \E p \in PayloadReplacements : ReplacePayload(p)
    \/ \E k \in HeaderDamages : BreakHeader(k)
    \/ FlipMagicByte
    \/ ReadMetadata
    \/ \E v \in BOOLEAN : \E k \in ReaderKeys(v) : ReadAndDecrypt(k, v)
    \/ \E v \in BOOLEAN : \E k \in ReaderKeys(v), e \in CtDecodings :
          ReadAndDecryptSelective(k, v, e)
    \/ \E v \in BOOLEAN : \E k \in ReaderKeys(v), e \in CtDecodings : Read(k, v, e)

Spec == Init /\ [][Next]_vars

\* ------------------------------------------- container framing, byte level
\* The file on disk as a sequence of bytes, written by the three framing
\* calls of the writer and taken apart by the opening of the readers.

\* Longest payload written, in bytes.
MaxPayloadLen == 2

\* formats/obb_constants.py: OBB_MAGIC, a fixed constant of 4 bytes.
MagicBytes == <<79, 66, 66, 1>>

\* Header lengths written: short ones, and ones that need the second byte
\* of the length prefix.
HeaderLens == {1, 2, 256, 257}

\* Byte values payloads are made of and bytes are overwritten with.
ByteSamples == {0, 1, 79}

\* serialize_header gives the header as bytes; the framing never looks into
\* them.
HeaderBytesOf(n, first) == [i \in 1..n |-> (first + i - 1) % 256]

HeaderSamples == {HeaderBytesOf(n, MagicBytes[1]) : n \in HeaderLens}

PayloadSamples ==
    UNION {[1..n -> ByteSamples] : n \in 0..MaxPayloadLen}

\* struct.pack("<I", n) and struct.unpack("<I", b)[0].
U32LE(n) ==
    <<n % 256, (n \div 256) % 256, (n \div 65536) % 256, (n \div 16777216) % 256>>

FromU32LE(b) == b[1] + 256 * b[2] + 65536 * b[3] + 16777216 * b[4]

\* BinaryWriter: each call appends to the stream.
BinaryWriter_write_magic(stream, magic) == stream \o magic

BinaryWriter_write_bytes(stream, data) == stream \o data

BinaryWriter_write_length_prefixed(stream, data) ==
    stream \o U32LE(Len(data)) \o data

\* f.read(n) at position pos: up to n bytes, fewer at the end of the file.
StreamRead(bytes, pos, n) ==
    SubSeq(bytes, pos + 1, IF Len(bytes) - pos < n THEN Len(bytes) ELSE pos + n)

\* BinaryReader.read_and_verify_magic: reads len(magic) bytes and compares.
BinaryReader_read_and_verify_magic(bytes, magic) ==
    StreamRead(bytes, 0, Len(magic)) = magic

\* BinaryReader.read_length_prefixed at position pos: a 4-byte little-endian
\* length, then that many bytes; fewer bytes left is a malformed container.
BinaryReader_read_length_prefixed(bytes, pos) ==
    LET prefix == StreamRead(bytes, pos, Len(U32LE(0)))
    IN  IF Len(prefix) < Len(U32LE(0))
        THEN [exc |-> "InvalidOBBFileError", bytes |-> <<>>, pos |-> Len(bytes)]
        ELSE IF Len(bytes) - pos - Len(prefix) < FromU32LE(prefix)
        THEN [exc |-> "InvalidOBBFileError", bytes |-> <<>>, pos |-> Len(bytes)]
        ELSE [exc |-> "none",
              bytes |-> StreamRead(bytes, pos + Len(prefix), FromU32LE(prefix)),
              pos |-> pos + Len(prefix) + FromU32LE(prefix)]

\* BinaryReader.read_rest at position pos: everything to the end of the file.
BinaryReader_read_rest(bytes, pos) == SubSeq(bytes, pos + 1, Len(bytes))

\* A layout that gives the payload a length prefix of its own.
WriteFraming_PrefixesPayload(header_bytes, encrypted_payload) ==
    BinaryWriter_write_length_prefixed(
        BinaryWriter_write_length_prefixed(
            BinaryWriter_write_magic(<<>>, MagicBytes), header_bytes),
        encrypted_payload)

\* The file structure written by _write_to_stream and
\* _write_selective_to_stream: write_magic, write_length_prefixed(header),
\* write_bytes(payload).
WriteFraming(header_bytes, encrypted_payload) ==
    BinaryWriter_write_bytes(
        BinaryWriter_write_length_prefixed(
            BinaryWriter_write_magic(<<>>, MagicBytes), header_bytes),
        encrypted_payload)

\* open(path, "rb"): what it raises for the states a path can be in.
DiskStates == {"file", "missing", "unreadable", "ioerror"}

OpenRb(d) ==
    CASE d.state = "missing" -> "FileNotFoundError"
      [] d.state = "unreadable" -> "PermissionError"
      [] OTHER -> "none"

\* f.read(n) on the opened file; a failing device raises OSError.
FileRead(d, n) ==
    IF d.state = "ioerror"
    THEN [exc |-> "OSError", bytes |-> <<>>]
    ELSE [exc |-> "none", bytes |-> StreamRead(d.bytes, 0, n)]

\* The opening of read_and_decrypt: magic, header, payload (the header
\* bytes go to deserialize_header afterwards).
SplitContainer(d) ==
    LET h == BinaryReader_read_length_prefixed(d.bytes, Len(MagicBytes))
    IN  IF OpenRb(d) # "none"
        THEN [exc |-> OpenRb(d), header |-> <<>>, payload |-> <<>>]
        ELSE IF d.state = "ioerror"
        THEN [exc |-> "OSError", header |-> <<>>, payload |-> <<>>]
        ELSE IF ~BinaryReader_read_and_verify_magic(d.bytes, MagicBytes)
        THEN [exc |-> "InvalidMagicBytesError", header |-> <<>>, payload |-> <<>>]
        ELSE IF h.exc # "none"
        THEN [exc |-> h.exc, header |-> <<>>, payload |-> <<>>]
        ELSE [exc |-> "none", header |-> h.bytes,
              payload |-> BinaryReader_read_rest(d.bytes, h.pos)]

\* is_valid_obb_file without its try: the exception goes to the caller.
is_valid_obb_file_Propagates(d) ==
    LET magic == FileRead(d, Len(MagicBytes))
    IN  IF OpenRb(d) # "none"
        THEN [exc |-> OpenRb(d), result |-> FALSE, consumed |-> 0]
        ELSE IF magic.exc # "none"
        THEN [exc |-> magic.exc, result |-> FALSE, consumed |-> 0]
        ELSE [exc |-> "none", result |-> magic.bytes = MagicBytes,
              consumed |-> Len(magic.bytes)]

\* OBBReader.is_valid_obb_file(path): open, read len(OBB_MAGIC) bytes,
\* compare; except Exception: return False.
is_valid_obb_file(d) ==
    LET magic == FileRead(d, Len(MagicBytes))
    IN  IF OpenRb(d) # "none" \/ magic.exc # "none"
        THEN [exc |-> "none", result |-> FALSE, consumed |-> 0]
        ELSE [exc |-> "none", result |-> magic.bytes = MagicBytes,
              consumed |-> Len(magic.bytes)]

Framed == <<file, written, lastRead, generated, caller, threads, call, registry>>

\* The writer puts a container with this header and payload on disk.
FrameWrite(header_bytes, encrypted_payload) ==
    /\ disk' = [state |-> "file",
                bytes |-> WriteFraming(header_bytes, encrypted_payload),
                origin |-> "writer",
                header |-> header_bytes, payload |-> encrypted_payload]
    /\ probe' = NoProbe
    /\ UNCHANGED Framed

\* Files that no writer of this program made: empty, shorter than the
\* magic, the magic alone, other bytes.
ForeignFiles ==
    {SubSeq(MagicBytes, 1, n) : n \in 0..Len(MagicBytes)}
        \cup {SubSeq(MagicBytes, 2, Len(MagicBytes)) \o MagicBytes}

PutForeign(bytes) ==
    /\ disk' = [NoDisk EXCEPT !.state = "file", !.bytes = bytes,
                              !.origin = "foreign"]
    /\ probe' = NoProbe
    /\ UNCHANGED Framed

\* Lengths a file is cut to: those around its section boundaries (inside
\* the magic, inside the length prefix, at the start and at the end of the
\* header, inside the payload).
CutPoints(bytes) ==
    {n \in 0..(Len(bytes) - 1) :
        \/ n <= Len(MagicBytes) + Len(U32LE(0)) + 1
        \/ n >= Len(bytes) - MaxPayloadLen - 1}

\* The file as the writer or someone else left it loses its end.
Truncate(n) ==
    /\ disk.state = "file"
    /\ disk.origin # "damaged"
    /\ n \in CutPoints(disk.bytes)
    /\ disk' = [disk EXCEPT !.bytes = SubSeq(disk.bytes, 1, n),
                            !.origin = "damaged"]
    /\ probe' = NoProbe
    /\ UNCHANGED Framed

\* One byte of the magic or of the length prefix is overwritten.
OverwriteByte(i, v) ==
    /\ disk.state = "file"
    /\ disk.origin # "damaged"
    /\ i \in 1..Len(disk.bytes)
    /\ disk.bytes[i] # v
    /\ disk' = [disk EXCEPT !.bytes[i] = v, !.origin = "damaged"]
    /\ probe' = NoProbe
    /\ UNCHANGED Framed

\* The path stops being an openable, readable file: removed, permissions
\* taken away, a device that fails on read.
Spoil(state) ==
    /\ disk.state = "file"
    /\ disk' = [disk EXCEPT !.state = state]
    /\ probe' = NoProbe
    /\ UNCHANGED Framed

Split ==
    /\ probe' = [NoProbe EXCEPT !.op = "split",
                                !.exc = SplitContainer(disk).exc,
                                !.header = SplitContainer(disk).header,
                                !.payload = SplitContainer(disk).payload]
    /\ UNCHANGED disk
    /\ UNCHANGED Framed

IsValidObbFile ==
    /\ probe' = [NoProbe EXCEPT !.op = "is_valid_obb_file",
                                !.exc = is_valid_obb_file(disk).exc,
                                !.result = is_valid_obb_file(disk).result,
                                !.consumed = is_valid_obb_file(disk).consumed]
    /\ UNCHANGED disk
    /\ UNCHANGED Framed

NextFraming ==
    \/ \E h \in HeaderSamples, p \in PayloadSamples : FrameWrite(h, p)
    \/ \E b \in ForeignFiles : PutForeign(b)
    \/ \E n \in 0..Len(disk.bytes) : Truncate(n)
    \/ \E i \in 1..(Len(MagicBytes) + Len(U32LE(0))), v \in ByteSamples : OverwriteByte(i, v)
    \/ \E s \in DiskStates \ {"file"} : Spoil(s)
    \/ Split
    \/ IsValidObbFile

SpecFraming == Init /\ [][NextFraming]_vars

\* --------------------------------------------- a caller's sequence of writes
\* One caller holds a metadata object and a design and makes write and
\* write_selective calls with them, each to a new output path; the metadata
\* object is the one the writer assigns to.

\* Most write calls of one caller.
MaxWrites == 2

\* The designs the caller writes: a lens alone, or an object plane and a
\* lens, the lens with any visibility.
CallerDesigns ==
    {d \in Designs :
        /\ d.surfaces[Len(d.surfaces)] \in {LensSurface(Len(d.surfaces) - 1, v) : v \in SurfaceVisibilityValues}
        /\ Len(d.surfaces) > 1 => d.surfaces[1] = ObjectPlane(0, PUBLIC)}

\* What a caller may have put into the write-time-only fields: the
\* defaults, or a signature over other bytes and a date of its own.
PrepopulatedSignatures == {<<>>, OBBSigner_sign(JsonArray, VendorKey)}

PrepopulatedTimes == {"None", "2026-01-30T14:32:00Z"}

\* The caller builds its metadata object and picks a design.
NewMetadata(surface_group, signature, created_at) ==
    /\ caller.outputs = <<>>
    /\ caller' = [caller EXCEPT
                     !.metadata = [MetadataFor(surface_group) EXCEPT
                                      !.signature = signature,
                                      !.created_at = created_at],
                     !.surface_group = surface_group]
    /\ UNCHANGED <<file, written, lastRead, generated, disk, probe, threads, call, registry>>

\* The caller goes on with another design and the same metadata object.
TakeDesign(surface_group) ==
    /\ caller.outputs # <<>>
    /\ caller.surface_group # surface_group
    /\ caller' = [caller EXCEPT !.surface_group = surface_group]
    /\ UNCHANGED <<file, written, lastRead, generated, disk, probe, threads, call, registry>>

\* What the caller keeps of a finished call: the container produced, the
\* metadata object at entry, and what the call returned (write and
\* write_selective return None).
Produced(mode, w, eph) ==
    [mode |-> mode, stream |-> w.stream, signed |-> w.signed, calls |-> w.calls,
     eph |-> eph, returned |-> "None"]

\* OBBWriter.write(path, caller.surface_group, caller.metadata, ...).
CallWrite ==
    /\ caller.surface_group # NoDesign
    /\ Len(caller.outputs) < MaxWrites
    /\ LET w == write_to_stream(caller.surface_group, caller.metadata,
                                VendorKey, PlatformKey, generated + 1)
       IN  caller' = [caller EXCEPT
                         !.before = caller.metadata,
                         !.metadata = w.metadata,
                         !.outputs = Append(@, Produced("full", w, generated + 1))]
    /\ generated' = generated + 1
    /\ UNCHANGED <<file, written, lastRead, disk, probe, threads, call, registry>>

\* OBBWriter.write_selective(path, caller.surface_group, caller.metadata, ...).
CallWriteSelective(InfNan) ==
    /\ caller.surface_group # NoDesign
    /\ Len(caller.outputs) < MaxWrites
    /\ LET w == write_selective_to_stream(caller.surface_group, caller.metadata,
                                          VendorKey, PlatformKey, generated + 1, InfNan)
       IN  caller' = [caller EXCEPT
                         !.before = caller.metadata,
                         !.metadata = w.metadata,
                         !.outputs = Append(@, Produced("selective", w, generated + 1))]
    /\ generated' = generated + 1
    /\ UNCHANGED <<file, written, lastRead, disk, probe, threads, call, registry>>

NextWrites ==
    \/ \E d \in CallerDesigns, s \in PrepopulatedSignatures, t \in PrepopulatedTimes :
          NewMetadata(d, s, t)
    \/ \E d \in CallerDesigns : TakeDesign(d)
    \/ CallWrite
    \/ \E b \in InfNanBuilds : CallWriteSelective(b)

SpecWrites == Init /\ [][NextWrites]_vars

\* ------------------------------------------------- write calls in parallel
\* Two threads each run one write or write_selective call for an output
\* file of their own.  The statements of _write_to_stream and
\* _write_selective_to_stream are the steps; the metadata objects are the
\* only state the calls can share.
Writers == {1, 2}

WriteModes == {"full", "selective"}

\* A thread at the start of its call: its design, its mode, the metadata
\* object it was given.
WriterThread(mode, surface_group, obj) ==
    [pc |-> "encrypt", mode |-> mode, surface_group |-> surface_group,
     obj |-> obj, payload |-> <<>>, ephemeral_public |-> 0,
     signature |-> <<>>, stream |-> NoFile]

\* The callers start the two calls, with one metadata object each or with
\* the same object.
StartWriters(m1, d1, m2, d2, same) ==
    /\ threads = NoThreads
    /\ threads' = [objs |-> [o \in Writers |-> MetadataFor(IF o = 1 THEN d1 ELSE d2)],
                   proc |-> [t \in Writers |->
                               IF t = 1 THEN WriterThread(m1, d1, 1)
                               ELSE WriterThread(m2, d2, IF same THEN 1 ELSE 2)]]
    /\ UNCHANGED <<file, written, lastRead, generated, disk, probe, caller, call, registry>>

\* encrypted_payload, ephemeral_public = encrypt_payload(...), or
\* encrypt_payload_selective(...) and json.dumps.
StepEncrypt(t) ==
    /\ threads # NoThreads
    /\ threads.proc[t].pc = "encrypt"
    /\ LET p == threads.proc[t]
           payload == IF p.mode = "full"
                      THEN encrypt_payload(p.surface_group, PlatformKey,
                                           generated + 1).encrypted_payload
                      ELSE JsonBytes(encrypt_payload_selective(p.surface_group, PlatformKey,
                                                               generated + 1, "null").payload)
       IN  threads' = [threads EXCEPT !.proc[t].pc = "sign",
                                      !.proc[t].payload = payload,
                                      !.proc[t].ephemeral_public = generated + 1]
    /\ generated' = generated + 1
    /\ UNCHANGED <<file, written, lastRead, disk, probe, caller, call, registry>>

\* signature = sign_payload(encrypted_payload, vendor_private_key)
StepSign(t) ==
    /\ threads # NoThreads
    /\ threads.proc[t].pc = "sign"
    /\ threads' = [threads EXCEPT
                      !.proc[t].pc = "set_signature",
                      !.proc[t].signature = sign_payload(threads.proc[t].payload, VendorKey)]
    /\ UNCHANGED <<file, written, lastRead, generated, disk, probe, caller, call, registry>>

\* metadata.signature = signature
StepSetSignature(t) ==
    /\ threads # NoThreads
    /\ threads.proc[t].pc = "set_signature"
    /\ threads' = [threads EXCEPT
                      !.proc[t].pc = "set_created_at",
                      !.objs[threads.proc[t].obj].signature = threads.proc[t].signature]
    /\ UNCHANGED <<file, written, lastRead, generated, disk, probe, caller, call, registry>>

\* metadata.created_at = datetime.utcnow()
StepSetCreatedAt(t) ==
    /\ threads # NoThreads
    /\ threads.proc[t].pc = "set_created_at"
    /\ threads' = [threads EXCEPT
                      !.proc[t].pc = "build_header",
                      !.objs[threads.proc[t].obj].created_at = UtcNow]
    /\ UNCHANGED <<file, written, lastRead, generated, disk, probe, caller, call, registry>>

\* header = build_header(metadata, ephemeral_public), serialize_header, and
\* the three framing writes to the thread's own stream.
StepBuildHeader(t) ==
    /\ threads # NoThreads
    /\ threads.proc[t].pc = "build_header"
    /\ LET p == threads.proc[t]
           header_bytes == serialize_header(build_header(threads.objs[p.obj],
                                                         p.ephemeral_public))
       IN  threads' = [threads EXCEPT
                          !.proc[t].pc = "done",
                          !.proc[t].stream = Container(header_bytes, p.payload)]
    /\ UNCHANGED <<file, written, lastRead, generated, disk, probe, caller, call, registry>>

NextParallel ==
    \/ \E m1, m2 \in WriteModes, d1, d2 \in CallerDesigns, same \in BOOLEAN :
          StartWriters(m1, d1, m2, d2, same)
    \/ \E t \in Writers : StepEncrypt(t)
    \/ \E t \in Writers : StepSign(t)
    \/ \E t \in Writers : StepSetSignature(t)
    \/ \E t \in Writers : StepSetCreatedAt(t)
    \/ \E t \in Writers : StepBuildHeader(t)

SpecParallel == Init /\ [][NextParallel]_vars

\* ------------------------------------------------ the data model, call by call
\* Constructors, validators and properties of the models and the surface
\* mapper, each applied to inputs drawn from bounded sets; call holds the
\* last call with its arguments and what it gave.

\* Largest primary-wavelength index tried.
MaxIndex == 4

WavelengthLists == {<<"550.0">>, <<"486.13", "587.56", "656.27">>}

PrimaryIndexValues == -1..MaxIndex

\* list[i] of Python, i counted from 0, a negative i from the end.
PyIndex(list, i) == IF i >= 0 THEN list[i + 1] ELSE list[Len(list) + i + 1]

\* SurfaceGroup.primary_wavelength
primary_wavelength(surface_group) ==
    IF surface_group.primary_wavelength_index < Len(surface_group.wavelengths_nm)
    THEN PyIndex(surface_group.wavelengths_nm, surface_group.primary_wavelength_index)
    ELSE surface_group.wavelengths_nm[1]

\* What a call that built or read a design gives: the error, or the
\* design's primary_wavelength.
DesignCall(op, wavelengths_nm, primary_wavelength_index, r) ==
    [op |-> op, wavelengths_nm |-> wavelengths_nm,
     primary_wavelength_index |-> primary_wavelength_index,
     exc |-> r.exc,
     primary_wavelength |-> IF r.exc = "none" THEN primary_wavelength(r.val) ELSE "none"]

\* SurfaceGroup(surfaces=[Surface(surface_number=1)], wavelengths_nm=...,
\* primary_wavelength_index=...)
NewSurfaceGroup(wavelengths_nm, primary_wavelength_index) ==
    /\ call' = DesignCall("SurfaceGroup", wavelengths_nm, primary_wavelength_index,
                  IF SurfaceGroupFieldsValid(wavelengths_nm, primary_wavelength_index)
                  THEN Ok(SurfaceGroup(<<DefaultSurface(1, PUBLIC)>>, wavelengths_nm,
                                       primary_wavelength_index, "None", "angle", "0.0"))
                  ELSE Raise("ValidationError"))
    /\ UNCHANGED <<file, written, lastRead, generated, disk, probe, caller, threads, registry>>

\* SurfaceGroup.model_validate_json of the JSON text of such a design, as
\* decrypt_payload does at read time.
ReadSurfaceGroup(wavelengths_nm, primary_wavelength_index) ==
    /\ call' = DesignCall("model_validate_json", wavelengths_nm, primary_wavelength_index,
                  SurfaceGroupValidateJson(SurfaceGroupDumpJson(
                      SurfaceGroup(<<DefaultSurface(1, PUBLIC)>>, wavelengths_nm,
                                   primary_wavelength_index, "None", "angle", "0.0"))))
    /\ UNCHANGED <<file, written, lastRead, generated, disk, probe, caller, threads, registry>>

\* The fields of the selective payload structure next to its mode tag.
PayloadFields ==
    {"public_surfaces", "redacted_surface_indices", "encrypted_surfaces_data",
     "wavelengths_nm", "primary_wavelength_index", "stop_surface",
     "field_type", "max_field"}

\* The payload structure without the fields in missing.
WithoutFields(payload_dict, missing) ==
    [k \in DOMAIN payload_dict \ missing |-> payload_dict[k]]

\* decrypt_payload_selective on the payload structure that
\* encrypt_payload_selective made of a design, with the fields in missing
\* taken out of it.
ReconstructWithout(surface_group, missing) ==
    /\ LET enc == encrypt_payload_selective(surface_group, PlatformKey, 1, "null")
           r   == decrypt_payload_selective(WithoutFields(enc.payload, missing),
                                            enc.ephemeral_public, PlatformKey)
       IN  call' = [op |-> "decrypt_payload_selective", missing |-> missing,
                    surface_group |-> surface_group,
                    exc |-> r.exc, design |-> r.val]
    /\ UNCHANGED <<file, written, lastRead, generated, disk, probe, caller, threads, registry>>

\* Strings whose length or characters are constrained are carried as
\* sequences of characters.
Repeat(c, n) == [i \in 1..n |-> c]

\* Vendor identifiers tried: at and around the length bounds, and with
\* characters that the pattern of VendorInfo.vendor_id does not admit.
VendorIdSamples ==
    {Repeat("a", n) : n \in {2, 3, 50, 51}}
        \cup {<<"t", "e", "s", "t", "-", "1">>, <<"T", "h", "o", "r">>,
              <<"a", " ", "b">>, <<"-", "a", "b">>}

NameSamples == {Repeat("A", n) : n \in {0, 1, 100, 101}}

\* Floats of this section are carried in thousandths: 1500 is 1.5.
NaSamples == {-100, 0, 1500, 1501}

DiameterSamples == {-1000, 0, 25400}

NumSurfacesSamples == {0, 1}

\* The field constraints of OBBMetadata: vendor_id min_length=3
\* max_length=50, name min_length=1 max_length=100, na ge=0 le=1.5,
\* diameter_mm gt=0, num_surfaces ge=1.
OBBMetadataFieldsValid(vendor_id, name, na, diameter_mm, num_surfaces) ==
    /\ Len(vendor_id) >= 3
    /\ Len(vendor_id) <= 50
    /\ Len(name) >= 1
    /\ Len(name) <= 100
    /\ na >= 0
    /\ na <= 1500
    /\ diameter_mm > 0
    /\ num_surfaces >= 1

\* OBBMetadata(vendor_id=..., name=..., efl_mm=50.0, na=..., diameter_mm=...,
\* spectral_range_nm=(400, 700), num_surfaces=...)
NewOBBMetadata(vendor_id, name, na, diameter_mm, num_surfaces) ==
    /\ call' = [op |-> "OBBMetadata", vendor_id |-> vendor_id, name |-> name,
                na |-> na, diameter_mm |-> diameter_mm,
                num_surfaces |-> num_surfaces,
                exc |-> IF OBBMetadataFieldsValid(vendor_id, name, na,
                                                  diameter_mm, num_surfaces)
                        THEN "none" ELSE "ValidationError"]
    /\ UNCHANGED <<file, written, lastRead, generated, disk, probe, caller, threads, registry>>

\* The three helper lists of a design, has_selective_encryption, and the
\* payload structure encrypt_payload_selective makes of it.
PartitionDesign(surface_group) ==
    /\ call' = [op |-> "partition", surface_group |-> surface_group,
                public |-> get_public_surfaces(surface_group),
                encrypted |-> get_encrypted_surfaces(surface_group),
                redacted |-> get_redacted_surfaces(surface_group),
                has_selective_encryption |-> has_selective_encryption(surface_group),
                payload |-> encrypt_payload_selective(surface_group, PlatformKey,
                                                      1, "null").payload]
    /\ UNCHANGED <<file, written, lastRead, generated, disk, probe, caller, threads, registry>>

\* parsers/zemax/zmx_tokens.py
SURFACE_TYPE_MAP ==
    [STANDARD |-> "standard", EVENASPH |-> "evenasph", ODDASPH |-> "oddasph",
     TOROIDAL |-> "toroidal", PARAXIAL |-> "standard", COORDBRK |-> "standard"]

SUPPORTED_SURFACE_TYPES == {"STANDARD", "EVENASPH", "ODDASPH", "TOROIDAL", "PARAXIAL"}

\* Type names a .zmx file may give: the known ones in several spellings,
\* and names outside the map.
ZemaxTypeNames ==
    {"STANDARD", "standard", "Standard", "EVENASPH", "evenasph", "ODDASPH",
     "TOROIDAL", "Toroidal", "PARAXIAL", "paraxial", "COORDBRK", "coordbrk",
     "ZERNIKE", "zernike", "UNKNOWN_TYPE"}

\* str.upper() on these names.
Upper(name) ==
    CASE name \in {"STANDARD", "standard", "Standard"} -> "STANDARD"
      [] name \in {"EVENASPH", "evenasph"} -> "EVENASPH"
      [] name \in {"TOROIDAL", "Toroidal"} -> "TOROIDAL"
      [] name \in {"PARAXIAL", "paraxial"} -> "PARAXIAL"
      [] name \in {"COORDBRK", "coordbrk"} -> "COORDBRK"
      [] name \in {"ZERNIKE", "zernike"} -> "ZERNIKE"
      [] OTHER -> name

\* map_surface_type(zemax_type)
map_surface_type(zemax_type) ==
    LET zemax_type_upper == Upper(zemax_type)
    IN  IF zemax_type_upper \notin SUPPORTED_SURFACE_TYPES
        THEN [exc |-> "UnsupportedSurfaceTypeError", val |-> "none"]
        ELSE [exc |-> "none",
              val |-> Get(SURFACE_TYPE_MAP, zemax_type_upper, "standard")]

\* build_surface that lets the error of map_surface_type through.
build_surface_Propagates(surface_data) ==
    LET m == map_surface_type(Get(surface_data, "type", "STANDARD"))
    IN  IF m.exc # "none" THEN [exc |-> m.exc, val |-> DefaultSurface(0, PUBLIC)]
        ELSE [exc |-> "none",
              val |-> [DefaultSurface(Get(surface_data, "number", 0), PUBLIC)
                          EXCEPT !.surface_type = m.val]]

\* build_surface(surface_data), for parsed data that gives at most the
\* number and the type of the surface (every other field at its default).
build_surface(surface_data) ==
    LET m == map_surface_type(Get(surface_data, "type", "STANDARD"))
        surface_type == IF m.exc = "UnsupportedSurfaceTypeError"
                        THEN "standard" ELSE m.val
    IN  [exc |-> "none",
         val |-> [DefaultSurface(Get(surface_data, "number", 0), PUBLIC)
                     EXCEPT !.surface_type = surface_type]]

MapSurfaceType(zemax_type) ==
    /\ call' = [op |-> "map_surface_type", zemax_type |-> zemax_type,
                exc |-> map_surface_type(zemax_type).exc,
                val |-> map_surface_type(zemax_type).val]
    /\ UNCHANGED <<file, written, lastRead, generated, disk, probe, caller, threads, registry>>

\* The parsed data of one surface: with a type name, or without.
SurfaceDataSamples ==
    {[number |-> 1, type |-> t] : t \in ZemaxTypeNames} \cup {[number |-> 1]}

BuildSurface(surface_data) ==
    /\ call' = [op |-> "build_surface", surface_data |-> surface_data,
                exc |-> build_surface(surface_data).exc,
                val |-> build_surface(surface_data).val]
    /\ UNCHANGED <<file, written, lastRead, generated, disk, probe, caller, threads, registry>>

\* Type tags an element of a written payload may carry: those of
\* SurfaceType and others.
TypeTags == SurfaceTypeValues \cup {"STANDARD", "zernike", "biconic"}

\* The places of an element in a payload: the plaintext of a fully
\* encrypted payload, the public list and the encrypted blob of a selective
\* one.
TagPlaces == {"full", "public", "blob"}

\* The JSON object of a lens with this type tag.
TaggedLens(tag, visibility) ==
    [SurfaceDumpJson(LensSurface(1, visibility)) EXCEPT !.surface_type = tag]

\* A payload that holds two lenses, the second with the type tag, and its
\* reconstruction by decrypt_payload or decrypt_payload_selective.
ReadTypeTag(tag, place) ==
    /\ LET lens0 == LensSurface(0, PUBLIC)
           full == [SurfaceGroupDumpJson(
                        SurfaceGroup(<<lens0, LensSurface(1, PUBLIC)>>,
                                     <<"587.56">>, 0, 1, "angle", "0.0"))
                       EXCEPT !.surfaces[2] = TaggedLens(tag, PUBLIC)]
           sel == encrypt_payload_selective(
                      SurfaceGroup(<<lens0, LensSurface(1, IF place = "blob" THEN ENCRYPTED ELSE PUBLIC)>>,
                                   <<"587.56">>, 0, 1, "angle", "0.0"),
                      PlatformKey, 1, "null").payload
           r == CASE place = "full" ->
                       decrypt_payload(OBBEncryptor_encrypt(JsonBytes(full), PlatformKey, 1),
                                       1, PlatformKey)
                  [] place = "public" ->
                       decrypt_payload_selective(
                           [sel EXCEPT !.public_surfaces[2] = TaggedLens(tag, PUBLIC)],
                           1, PlatformKey)
                  [] OTHER ->
                       decrypt_payload_selective(
                           [sel EXCEPT !.encrypted_surfaces_data =
                               <<OBBEncryptor_encrypt(
                                   JsonBytes([surfaces |-> <<TaggedLens(tag, ENCRYPTED)>>]),
                                   PlatformKey, 1)>>],
                           1, PlatformKey)
       IN  call' = [op |-> "read_type_tag", tag |-> tag, place |-> place,
                    exc |-> r.exc, design |-> r.val]
    /\ UNCHANGED <<file, written, lastRead, generated, disk, probe, caller, threads, registry>>

NextModels ==
    \/ \E w \in WavelengthLists, i \in PrimaryIndexValues : NewSurfaceGroup(w, i)
    \/ \E t \in ZemaxTypeNames : MapSurfaceType(t)
    \/ \E d \in SurfaceDataSamples : BuildSurface(d)
    \/ \E t \in TypeTags, p \in TagPlaces : ReadTypeTag(t, p)
    \/ \E d \in Designs : PartitionDesign(d)
    \/ \E v \in VendorIdSamples, n \in NameSamples, na \in NaSamples, d \in DiameterSamples, k \in NumSurfacesSamples :
          NewOBBMetadata(v, n, na, d, k)
    \/ \E w \in WavelengthLists, i \in PrimaryIndexValues : ReadSurfaceGroup(w, i)
    \/ \E d \in CallerDesigns, f \in PayloadFields : ReconstructWithout(d, {f})
    \/ \E d \in CallerDesigns : ReconstructWithout(d, {})

SpecModels == Init /\ [][NextModels]_vars

\* ------------------------------------------------------ parsers/registry.py
\* The module-level registry of parser classes by file extension; call
\* holds the last operation with the registry it found.

\* Most extensions given to one register_parser call.
MaxExtensions == 2

Extensions == {".zmx", ".ZMX", ".zar"}

ParserClasses == {"ZemaxParser", "OtherParser"}

\* str.lower() on these extensions.
Lower(ext) == IF ext = ".ZMX" THEN ".zmx" ELSE ext

ExtensionLists == UNION {[1..n -> Extensions] : n \in 1..MaxExtensions}

\* The loop of register_parser's decorator from the i-th extension on: the
\* registry it leaves and the exception it ends with.
RECURSIVE RegisterFrom(_, _, _, _)
RegisterFrom(reg, extensions, i, cls) ==
    IF i > Len(extensions) THEN [exc |-> "none", registry |-> reg]
    ELSE IF Lower(extensions[i]) \in DOMAIN reg
    THEN [exc |-> "ValueError", registry |-> reg]
    ELSE RegisterFrom(
             [e \in DOMAIN reg \cup {Lower(extensions[i])} |->
                 IF e = Lower(extensions[i]) THEN cls ELSE reg[e]],
             extensions, i + 1, cls)

\* register_parser(*extensions)(cls)
register_parser(reg, extensions, cls) == RegisterFrom(reg, extensions, 1, cls)

\* get_parser_for_extension(extension): an instance of the registered
\* class, or ValueError.
get_parser_for_extension(reg, extension) ==
    IF Lower(extension) \notin DOMAIN reg
    THEN [exc |-> "ValueError", parser |-> "none"]
    ELSE [exc |-> "none", parser |-> reg[Lower(extension)]]

RegisterParser(extensions, cls) ==
    /\ registry' = register_parser(registry, extensions, cls).registry
    /\ call' = [op |-> "register_parser", extensions |-> extensions, cls |-> cls,
                before |-> registry,
                exc |-> register_parser(registry, extensions, cls).exc]
    /\ UNCHANGED <<file, written, lastRead, generated, disk, probe, caller, threads>>

Lookup(extension) ==
    /\ call' = [op |-> "get_parser_for_extension", extension |-> extension,
                before |-> registry,
                exc |-> get_parser_for_extension(registry, extension).exc,
                parser |-> get_parser_for_extension(registry, extension).parser]
    /\ UNCHANGED <<file, written, lastRead, generated, disk, probe, caller, threads, registry>>

\* clear_registry()
ClearRegistry ==
    /\ registry' = EmptyRegistry
    /\ call' = [op |-> "clear_registry", before |-> registry, exc |-> "none"]
    /\ UNCHANGED <<file, written, lastRead, generated, disk, probe, caller, threads>>

NextRegistry ==
    \/ \E x \in ExtensionLists, c \in ParserClasses : RegisterParser(x, c)
    \/ \E e \in Extensions : Lookup(e)
    \/ ClearRegistry

SpecRegistry == Init /\ [][NextRegistry]_vars

\* ------------------------------------------- a write call and its output path
\* OBBWriter.write and write_selective open the output path for writing and
\* run _write_to_stream inside the with block; any step of it may raise.
\* call holds the last write call with what the path held before it.

\* The steps of a write call that can raise, in their order; "none" is the
\* call that succeeds.
FailurePoints ==
    <<"encrypt_payload", "sign_payload", "build_header", "write_magic",
      "write_length_prefixed", "write_bytes">>

\* What open(output_path, "wb") and the steps before the failing one have
\* put into the file when the call ends: open truncates, the steps up to
\* build_header write nothing, then the magic, the length-prefixed header
\* and the payload follow.
BytesLeftBy(header_bytes, encrypted_payload, fail) ==
    CASE fail \in {"encrypt_payload", "sign_payload", "build_header", "write_magic"} ->
             <<>>
      [] fail = "write_length_prefixed" ->
             BinaryWriter_write_magic(<<>>, MagicBytes)
      [] fail = "write_bytes" ->
             BinaryWriter_write_length_prefixed(
                 BinaryWriter_write_magic(<<>>, MagicBytes), header_bytes)
      [] OTHER -> WriteFraming(header_bytes, encrypted_payload)

\* The containers written in this section: short headers and payloads.
WholesaleHeaders == {h \in HeaderSamples : Len(h) < 256}

WholesalePayloads == {q \in PayloadSamples : Len(q) <= 1}

\* OBBWriter.write(output_path, ...) that fails at the step fail, or
\* succeeds.
WriteCall(header_bytes, encrypted_payload, fail) ==
    /\ disk.state \in {"file", "missing"}
    /\ disk' = [state |-> "file",
                bytes |-> BytesLeftBy(header_bytes, encrypted_payload, fail),
                origin |-> IF fail = "none" THEN "writer" ELSE "damaged",
                header |-> header_bytes, payload |-> encrypted_payload]
    /\ call' = [op |-> "write", fail |-> fail, before |-> disk,
                exc |-> IF fail = "none" THEN "none" ELSE "Exception",
                header_bytes |-> header_bytes,
                encrypted_payload |-> encrypted_payload]
    /\ UNCHANGED <<file, written, lastRead, generated, probe, caller, threads, registry>>

\* Between two write calls the output path is given another content (a
\* file of another program), or the next call is made on what the last
\* one left.
PathHeld(bytes) ==
    /\ disk' = [NoDisk EXCEPT !.state = "file", !.bytes = bytes,
                              !.origin = "foreign"]
    /\ call' = NoCall
    /\ UNCHANGED <<file, written, lastRead, generated, probe, caller, threads, registry>>

NextWholesale ==
    \/ \E h \in WholesaleHeaders, q \in WholesalePayloads : WriteCall(h, q, "none")
    \/ \E h \in WholesaleHeaders, q \in WholesalePayloads, i \in 1..Len(FailurePoints) :
          WriteCall(h, q, FailurePoints[i])
    \/ \E b \in ForeignFiles : PathHeld(b)

SpecWholesale == Init /\ [][NextWholesale]_vars

\* ------------------------------------------------------------------ claims
\* A read is on record (of the file as it is now: any change of the file
\* clears the record).
HasRead == lastRead.op # "none"

\* The read on record got through the opening: magic, header, payload.
PastOpening == HasRead /\ lastRead.framing = FramingSteps

\* The signature stored in the header of the file.
StoredSignature == file.header.dict.metadata.signature

\* The calls that decrypt.
DecryptCalls == {"decrypt_payload", "decrypt_payload_selective", "OBBEncryptor.decrypt"}

NoDecryptCall(calls) == \A i \in 1..Len(calls) : calls[i] \notin DecryptCalls

\* C1: in read_and_decrypt, read_and_decrypt_selective and read with
\* verify_signature true, the signature is verified over the payload bytes
\* before any decryption call, and when verification returns false the
\* call raises InvalidSignatureError and makes no decryption call at all.
C1_VerifyBeforeDecrypt ==
    (PastOpening /\ lastRead.verify_signature) =>
        /\ lastRead.verified = <<file.payload>>
        /\ \A i \in 1..Len(lastRead.calls) :
              lastRead.calls[i] \in DecryptCalls =>
                  \E j \in 1..(i - 1) : lastRead.calls[j] = "verify_payload_signature"
        /\ ~OBBSigner_verify(file.payload, StoredSignature, lastRead.vendor_key) =>
              /\ lastRead.exc = "InvalidSignatureError"
              /\ NoDecryptCall(lastRead.calls)

\* A verifying read that met a signature that does not verify.
C1_Witness ==
    /\ HasRead
    /\ lastRead.verify_signature
    /\ ~OBBSigner_verify(file.payload, StoredSignature, lastRead.vendor_key)
    /\ lastRead.exc = "InvalidSignatureError"
    /\ lastRead.calls = <<"verify_payload_signature">>

\* The payload section differs from the one written, the header does not.
PayloadChanged ==
    /\ file # NoFile
    /\ file.magic = written.stream.magic
    /\ file.header = written.stream.header
    /\ file.payload # written.stream.payload

\* C2: after any single-byte change of the payload of a written container,
\* every read with verification enabled and the vendor's public key ends in
\* InvalidSignatureError.
C2_TamperedPayloadRejected ==
    (HasRead /\ PayloadChanged /\ lastRead.verify_signature
        /\ lastRead.vendor_key = VendorKey) =>
            lastRead.exc = "InvalidSignatureError"

\* The auto-detecting reader rejects a selective payload that still is
\* well-formed JSON after the change (a digit of an ordinal was changed).
C2_Witness ==
    /\ HasRead
    /\ PayloadChanged
    /\ lastRead.op = "read"
    /\ lastRead.verify_signature
    /\ lastRead.vendor_key = VendorKey
    /\ lastRead.platform_key = PlatformKey
    /\ file.payload.form = "json"
    /\ file.payload.dmg = "none"
    /\ IsJsonObject(file.payload.dict)
    /\ file.payload.dict.encryption_mode = "selective"
    /\ lastRead.exc = "InvalidSignatureError"

\* A read of the file as written, by a holder of some other platform key,
\* with the reader that fits the container (or the auto-detecting one) and
\* nothing else in the way (the signature is skipped or verifies).
WrongKeyRead ==
    /\ HasRead
    /\ Intact
    /\ lastRead.platform_key # PlatformKey
    /\ lastRead.verify_signature => lastRead.vendor_key = VendorKey
    /\ \/ lastRead.op = "read"
       \/ lastRead.op = "read_and_decrypt" /\ written.mode = "full"
       \/ lastRead.op = "read_and_decrypt_selective" /\ written.mode = "selective"

\* The payload written holds a ciphertext.
HasCiphertext ==
    \/ written.mode = "full"
    \/ written.mode = "selective" /\ get_encrypted_surfaces(written.design) # <<>>

\* C3 as stated: a read with a platform private key that does not match the
\* key the container was encrypted for ends in DecryptionError, for every
\* payload, the selective payload without Encrypted elements included.
C3_WrongKeyAlwaysDecryptionError ==
    WrongKeyRead => lastRead.exc = "DecryptionError"

\* C3, amended: with a wrong platform private key no Design is returned
\* from a payload that holds a ciphertext; the error is DecryptionError
\* for every full-mode container and whenever the decryption is reached;
\* a selective payload without Encrypted elements holds no ciphertext, is
\* never decrypted and never ends in DecryptionError.
C3_WrongKeyNoDesignFromCiphertext ==
    WrongKeyRead =>
        /\ HasCiphertext => (lastRead.exc # "none" /\ lastRead.design = NoDesign)
        /\ written.mode = "full" => lastRead.exc = "DecryptionError"
        /\ (\E i \in 1..Len(lastRead.calls) : lastRead.calls[i] = "OBBEncryptor.decrypt")
              => lastRead.exc = "DecryptionError"
        /\ ~HasCiphertext =>
              /\ \A i \in 1..Len(lastRead.calls) : lastRead.calls[i] # "OBBEncryptor.decrypt"
              /\ lastRead.exc # "DecryptionError"

\* A selective container with an Encrypted element, read with a wrong key:
\* the decryption is reached and fails.
C3_Witness ==
    /\ WrongKeyRead
    /\ written.mode = "selective"
    /\ HasCiphertext
    /\ lastRead.op = "read_and_decrypt_selective"
    /\ lastRead.exc = "DecryptionError"
    /\ lastRead.calls[Len(lastRead.calls)] = "OBBEncryptor.decrypt"

\* The plaintext JSON of the design that was written.
PlaintextOf(surface_group) == JsonBytes(SurfaceGroupDumpJson(surface_group))

\* C4: what the writer hands to sign_payload is the payload section it
\* writes, the encrypted form (ciphertext in full mode, the selective JSON
\* in selective mode), never the plaintext JSON of the SurfaceGroup, and the
\* stored signature is the one over those bytes; the reader hands the
\* payload section it read to the verification.
C4_SignatureOverWrittenPayload ==
    /\ written.mode # "none" =>
          /\ written.signed = written.stream.payload
          /\ written.signed # PlaintextOf(written.design)
          /\ written.mode = "full" => written.signed.form = "ciphertext"
          /\ written.mode = "selective" =>
                /\ written.signed.form = "json"
                /\ written.signed.dict.encryption_mode = "selective"
          /\ written.stream.header.dict.metadata.signature
                = OBBSigner_sign(written.stream.payload, VendorKey)
          /\ written.stream.header.dict.metadata.signature
                # OBBSigner_sign(PlaintextOf(written.design), VendorKey)
    /\ (PastOpening /\ lastRead.verify_signature) => lastRead.verified = <<file.payload>>

\* A full-mode container was written and a verifying read of it went through.
C4_Witness ==
    /\ written.mode = "full"
    /\ Intact
    /\ HasRead
    /\ lastRead.verify_signature
    /\ lastRead.vendor_key = VendorKey
    /\ lastRead.verified = <<written.signed>>
    /\ lastRead.exc # "InvalidSignatureError"

\* A read of the file with the keys it was written for: the platform's
\* private key and, when the signature is verified, the vendor's public key.
RightKeys ==
    /\ lastRead.platform_key = PlatformKey
    /\ lastRead.verify_signature => lastRead.vendor_key = VendorKey

\* A header field was altered, the payload section is the one written.
HeaderAltered ==
    /\ file # NoFile
    /\ file.magic = written.stream.magic
    /\ file.payload = written.stream.payload
    /\ file.header # written.stream.header
    /\ file.header.dmg = "none"

\* C5 as stated: the signature covers the transported metadata (efl_mm, na,
\* diameter_mm, spectral range), so a verifying read of a container whose
\* header fields were altered, payload intact, ends in InvalidSignatureError.
C5_AlteredHeaderRejected ==
    (HasRead /\ HeaderAltered /\ lastRead.verify_signature) =>
        lastRead.exc = "InvalidSignatureError"

\* C6 as stated: read_and_decrypt (or read) of a container produced by
\* write, with the matching keys, succeeds and returns a Design equal to the
\* one written, element by element and attribute by attribute, for every
\* valid Design, infinite radius and infinite thickness included.
C6_FullRoundTrip ==
    (HasRead /\ Intact /\ written.mode = "full" /\ RightKeys
        /\ lastRead.op \in {"read_and_decrypt", "read"}) =>
            /\ lastRead.exc = "none"
            /\ lastRead.design = written.design

\* The element of a selective round trip that corresponds to the original
\* element s: s itself when Public or Encrypted, the placeholder with the
\* ordinal of s when Redacted.
SelectiveImage(s) ==
    IF s.visibility = REDACTED THEN RedactedPlaceholder(s.surface_number) ELSE s

\* C7 as stated: read_and_decrypt_selective of a container produced by
\* write_selective returns one element per original element, the Public and
\* Encrypted ones as written, the Redacted ones as placeholders with their
\* ordinal, and at each position the element with the ordinal of the
\* original element at that position.
C7_SelectiveRoundTrip ==
    (HasRead /\ Intact /\ written.mode = "selective" /\ RightKeys
        /\ lastRead.op = "read_and_decrypt_selective") =>
            /\ lastRead.exc = "none"
            /\ Len(lastRead.design.surfaces) = Len(written.design.surfaces)
            /\ \A i \in 1..Len(written.design.surfaces) :
                  /\ lastRead.design.surfaces[i].surface_number
                        = written.design.surfaces[i].surface_number
                  /\ lastRead.design.surfaces[i]
                        = SelectiveImage(written.design.surfaces[i])

\* surface_number is non-decreasing along the list.
SortedByNumber(surfaces) ==
    \A i \in 1..(Len(surfaces) - 1) :
        surfaces[i].surface_number <= surfaces[i + 1].surface_number

\* C8 as stated: after a round trip in full mode (write, then
\* read_and_decrypt or read) or in selective mode (write_selective, then
\* read_and_decrypt_selective or read), the returned element list is sorted
\* by ordinal, whatever the order of the list that was written.
C8_ReturnedListSorted ==
    (HasRead /\ Intact /\ RightKeys /\ lastRead.exc = "none"
        /\ \/ written.mode = "full" /\ lastRead.op \in {"read_and_decrypt", "read"}
           \/ written.mode = "selective"
                /\ lastRead.op \in {"read_and_decrypt_selective", "read"}) =>
            SortedByNumber(lastRead.design.surfaces)

\* The surface_number values are pairwise distinct.
DistinctNumbers(surfaces) ==
    \A i, j \in 1..Len(surfaces) :
        i # j => surfaces[i].surface_number # surfaces[j].surface_number

\* C9 as stated: every SurfaceGroup that can be constructed and every
\* Design a reader returns (for any payload that passes the reader) has
\* pairwise distinct surface_number values.
C9_OrdinalsUnique ==
    /\ written.mode # "none" => DistinctNumbers(written.design.surfaces)
    /\ (HasRead /\ lastRead.exc = "none") => DistinctNumbers(lastRead.design.surfaces)

\* Two designs that differ at most in the non-ordinal, non-visibility
\* fields of their Encrypted and Redacted elements.
HiddenEquivalent(a, b) ==
    /\ [a EXCEPT !.surfaces = <<>>] = [b EXCEPT !.surfaces = <<>>]
    /\ Len(a.surfaces) = Len(b.surfaces)
    /\ \A i \in 1..Len(a.surfaces) :
          /\ a.surfaces[i].surface_number = b.surfaces[i].surface_number
          /\ a.surfaces[i].visibility = b.surfaces[i].visibility
          /\ a.surfaces[i].visibility = PUBLIC => a.surfaces[i] = b.surfaces[i]

\* The payload structure without its encrypted_surfaces_data field.
OutsideCiphertext(payload) == [payload EXCEPT !.encrypted_surfaces_data = <<>>]

\* The selective payload structure was just written, on the build b.
JustWrittenSelective(b) ==
    /\ written.mode = "selective"
    /\ Intact
    /\ ~HasRead
    /\ file.payload.dict
          = encrypt_payload_selective(written.design, PlatformKey, generated, b).payload

\* C10: encrypt_payload_selective gives two designs that differ only in the
\* geometry of their Encrypted and Redacted elements payload structures
\* that agree in every field but encrypted_surfaces_data, and of a Redacted
\* element the payload stores the ordinal and nothing else: the entries
\* outside the ciphertext are Public elements, the entries inside it are
\* Encrypted ones, and the ordinal list is that of the Redacted elements.
C10_HiddenGeometryNotInPayload ==
    \A b \in InfNanBuilds :
        JustWrittenSelective(b) =>
            LET p == file.payload.dict
            IN  /\ \A d \in Designs :
                      HiddenEquivalent(written.design, d) =>
                          OutsideCiphertext(
                              encrypt_payload_selective(d, PlatformKey,
                                                        generated + 1, b).payload)
                              = OutsideCiphertext(p)
                /\ \A i \in 1..Len(p.public_surfaces) :
                      p.public_surfaces[i].visibility = PUBLIC
                /\ p.encrypted_surfaces_data # <<>> =>
                      \A i \in 1..Len(p.encrypted_surfaces_data[1].pt.dict.surfaces) :
                          p.encrypted_surfaces_data[1].pt.dict.surfaces[i].visibility
                              = ENCRYPTED
                /\ LET r == get_redacted_surfaces(written.design)
                   IN  p.redacted_surface_indices
                          = [i \in 1..Len(r) |-> r[i].surface_number]

\* A design with a Redacted lens surface was written selectively, and
\* there is another design that differs from it in hidden geometry only.
C10_Witness ==
    /\ \E b \in InfNanBuilds : JustWrittenSelective(b)
    /\ \E i \in 1..Len(written.design.surfaces) :
          /\ written.design.surfaces[i].visibility = REDACTED
          /\ written.design.surfaces[i].material = "N-BK7"
    /\ \E i \in 1..Len(written.design.surfaces) :
          written.design.surfaces[i].visibility = ENCRYPTED
    /\ \E d \in Designs : d # written.design /\ HiddenEquivalent(written.design, d)
    /\ file.payload.dict.redacted_surface_indices # <<>>

\* The payload of the file is a selective structure that still decodes.
SelectivePayload ==
    /\ file # NoFile
    /\ file.payload.form = "json"
    /\ file.payload.dmg = "none"
    /\ IsJsonObject(file.payload.dict)
    /\ file.payload.dict.encryption_mode = "selective"

\* The read on record went through selective reconstruction.
ReconstructedSelective ==
    /\ HasRead
    /\ SelectivePayload
    /\ \E i \in 1..Len(lastRead.calls) : lastRead.calls[i] = "decrypt_payload_selective"

\* C11: for a design with zero Encrypted elements encrypt_payload_selective
\* makes no call to the encryption engine, stores the empty string as
\* ciphertext and still generates an ephemeral key pair whose public half
\* goes to the header; a read of a payload with an empty ciphertext field
\* makes no decryption call.
C11_NoEncryptedNoEngineCall ==
    /\ (written.mode = "selective" /\ get_encrypted_surfaces(written.design) = <<>>) =>
          /\ written.calls = <<"generate_ephemeral_keypair", "OBBSigner.sign">>
          /\ written.stream.payload.dict.encrypted_surfaces_data = <<>>
          /\ written.stream.header.dict.ephemeral_public_key \in 1..generated
    /\ (ReconstructedSelective /\ file.payload.dict.encrypted_surfaces_data = <<>>) =>
          \A i \in 1..Len(lastRead.calls) : lastRead.calls[i] # "OBBEncryptor.decrypt"

\* A design without Encrypted elements was written selectively and read
\* back through selective reconstruction.
C11_Witness ==
    /\ written.mode = "selective"
    /\ get_encrypted_surfaces(written.design) = <<>>
    /\ Intact
    /\ ReconstructedSelective
    /\ lastRead.exc = "none"
    /\ lastRead.calls[Len(lastRead.calls)] = "decrypt_payload_selective"

\* The element is at the field defaults in all its geometry.
DefaultGeometry(s) ==
    /\ s.radius = "inf"
    /\ s.thickness = "0.0"
    /\ s.semi_diameter = "0.0"
    /\ s.conic = "0.0"
    /\ s.material = "None"
    /\ s.aspheric_coeffs = "None"
    /\ s.decenter_x = "0.0"
    /\ s.decenter_y = "0.0"
    /\ s.tilt_x = "0.0"
    /\ s.tilt_y = "0.0"

\* C12 as stated: for every redacted ordinal of a selective payload the
\* returned design has a placeholder element with that ordinal, visibility
\* Redacted, default geometry, and a marker that the data was withheld,
\* observable on the element.
C12_PlaceholderCarriesMarker ==
    (ReconstructedSelective /\ lastRead.exc = "none") =>
        \A k \in 1..Len(file.payload.dict.redacted_surface_indices) :
            \E j \in 1..Len(lastRead.design.surfaces) :
                LET s == lastRead.design.surfaces[j]
                IN  /\ s.surface_number = file.payload.dict.redacted_surface_indices[k]
                    /\ s.visibility = REDACTED
                    /\ DefaultGeometry(s)
                    /\ "comment" \in DOMAIN s

\* The read on record got past the signature check (or skipped it).
PastSignature == PastOpening /\ lastRead.exc # "InvalidSignatureError"

Called(name) == \E i \in 1..Len(lastRead.calls) : lastRead.calls[i] = name

\* The payload of the file is structured text: UTF-8 that parses as JSON.
StructuredText ==
    file # NoFile /\ file.payload.form = "json" /\ file.payload.dmg = "none"

\* C13: read chooses the decoding from the payload alone: selective
\* reconstruction exactly when the payload is UTF-8 JSON for an object
\* whose encryption_mode is "selective", full decryption in every other
\* case, and a payload that is no structured text never ends the call in
\* one of the decoding errors of the detection.
C13_ModeFromPayloadAlone ==
    (PastSignature /\ lastRead.op = "read") =>
        /\ Called("decrypt_payload_selective") <=> SelectivePayload
        /\ ~SelectivePayload => Called("decrypt_payload")
        /\ ~StructuredText => lastRead.exc \notin DecodeErrors

\* read met a JSON object with another mode and decrypted it in full.
C13_Witness ==
    /\ PastSignature
    /\ lastRead.op = "read"
    /\ StructuredText
    /\ IsJsonObject(file.payload.dict)
    /\ file.payload.dict.encryption_mode # "selective"
    /\ Called("decrypt_payload")
    /\ ~Called("decrypt_payload_selective")

\* What the caller gets from a read result.
Outcome(r) == [exc |-> r.exc, metadata |-> r.metadata, design |-> r.design]

\* C14: for a container produced by write, read gives what read_and_decrypt
\* gives on the same arguments, and for a container produced by
\* write_selective what read_and_decrypt_selective gives: the same
\* (metadata, Design) or the same error.
C14_ReadAgreesWithModeReaders ==
    (HasRead /\ Intact /\ lastRead.op = "read") =>
        /\ written.mode = "full" =>
              Outcome(lastRead)
                  = Outcome(read_and_decrypt(file, lastRead.platform_key,
                                             lastRead.vendor_key,
                                             lastRead.verify_signature))
        /\ written.mode = "selective" =>
              \A e \in CtDecodings :
                  Outcome(lastRead)
                      = Outcome(read_and_decrypt_selective(file, lastRead.platform_key,
                                                           lastRead.vendor_key,
                                                           lastRead.verify_signature, e))

\* read returned the design of a selective container and of a full one.
C14_Witness ==
    /\ HasRead
    /\ Intact
    /\ lastRead.op = "read"
    /\ written.mode = "selective"
    /\ get_encrypted_surfaces(written.design) # <<>>
    /\ lastRead.exc = "none"
    /\ lastRead.design.surfaces # <<>>

\* C15 as stated: an exception raised inside verify_payload_signature,
\* decrypt_payload or decrypt_payload_selective (a JSON or Unicode decoding
\* error of the decrypted element list included) reaches the caller, and
\* the call makes no other decoding attempt after it.
C15_NoExceptionSwallowed ==
    (PastSignature /\ StructuredText /\ Called("decrypt_payload_selective")) =>
        /\ lastRead.exc
              = decrypt_payload_selective(file.payload.dict,
                                          file.header.dict.ephemeral_public_key,
                                          lastRead.platform_key).exc
        /\ ~Called("decrypt_payload")

\* The first four bytes of the file are not the magic.
MagicMismatch == file # NoFile /\ file.magic # OBB_MAGIC

\* C16: for a file whose first 4 bytes differ from the magic, read_metadata
\* raises InvalidMagicBytesError and nothing else, and in read_metadata,
\* read_and_decrypt, read_and_decrypt_selective and read the magic check is
\* the first step: with a mismatch no header byte is read or decoded.
C16_MagicCheckedFirst ==
    HasRead =>
        /\ lastRead.framing[1] = "read_and_verify_magic"
        /\ MagicMismatch =>
              /\ lastRead.exc = "InvalidMagicBytesError"
              /\ lastRead.framing = <<"read_and_verify_magic">>

\* read_metadata met a file with a wrong magic whose header, had it been
\* read, would have failed on its own.
C16_Witness ==
    /\ HasRead
    /\ lastRead.op = "read_metadata"
    /\ MagicMismatch
    /\ file.header.dmg # "none"
    /\ lastRead.exc = "InvalidMagicBytesError"

\* The file fails in its framing or header: wrong magic, a header shorter
\* than its declared length, a header that does not decode.
MalformedFile == file # NoFile /\ (MagicMismatch \/ file.header.dmg # "none")

DecryptingReaders == {"read", "read_and_decrypt", "read_and_decrypt_selective"}

\* C17: a decrypting read of a file with a magic mismatch, a header shorter
\* than its declared length or a header that fails to decode ends in an
\* error before any cryptographic operation: no signature verification and
\* no decryption is invoked.
C17_FramingErrorsBeforeCrypto ==
    (HasRead /\ lastRead.op \in DecryptingReaders /\ MalformedFile) =>
        /\ lastRead.exc \in {"InvalidMagicBytesError", "InvalidOBBFileError"}
        /\ lastRead.calls = <<>>
        /\ lastRead.verified = <<>>
        /\ lastRead.design = NoDesign

\* A verifying read of a file that ends inside its header.
C17_Witness ==
    /\ HasRead
    /\ lastRead.op = "read"
    /\ lastRead.verify_signature
    /\ file.magic = OBB_MAGIC
    /\ file.header.dmg = "truncated"
    /\ lastRead.exc = "InvalidOBBFileError"
    /\ lastRead.framing = SubSeq(FramingSteps, 1, 2)

\* Payload sections a file with the magic and header of this file may have:
\* the one written, a damaged one, another text, none.
OtherPayloads ==
    {written.stream.payload, [written.stream.payload EXCEPT !.dmg = "flipped"],
     JsonArray, EmptyBytes}

\* C19: read_metadata takes no key, verifies no signature, decrypts nothing
\* and extracts no ephemeral key, and what it returns depends on the magic
\* and header sections only: with any other payload, or none, behind the
\* same magic and header it returns the same.
C19_MetadataIndependentOfPayload ==
    (HasRead /\ lastRead.op = "read_metadata") =>
        /\ lastRead.calls = <<>>
        /\ lastRead.verified = <<>>
        /\ \A i \in 1..Len(lastRead.framing) :
              lastRead.framing[i] \notin {"read_rest", "extract_ephemeral_key"}
        /\ \A p \in OtherPayloads :
              Outcome(read_metadata([file EXCEPT !.payload = p])) = Outcome(lastRead)

\* read_metadata returned the written metadata from a file whose payload
\* section is missing.
C19_Witness ==
    /\ HasRead
    /\ lastRead.op = "read_metadata"
    /\ file.payload = EmptyBytes
    /\ file.header = written.stream.header
    /\ lastRead.exc = "none"
    /\ lastRead.metadata = written.metadata

\* The file on disk is as the writer left it.
AsWritten == disk.state = "file" /\ disk.origin = "writer"

\* C18: a written file is the 4-byte magic, the header length L as 4 bytes
\* unsigned little-endian, exactly L header bytes, and the payload up to
\* the end of the file; the readers' split at these offsets returns the
\* header and the payload that were written, for every header and payload,
\* the empty payload included.
C18_LayoutAndSplit ==
    AsWritten =>
        /\ Len(disk.bytes) = 8 + Len(disk.header) + Len(disk.payload)
        /\ SubSeq(disk.bytes, 1, 4) = MagicBytes
        /\ disk.bytes[5] + 256 * disk.bytes[6] + 65536 * disk.bytes[7]
              + 16777216 * disk.bytes[8] = Len(disk.header)
        /\ SubSeq(disk.bytes, 9, 8 + Len(disk.header)) = disk.header
        /\ SubSeq(disk.bytes, 9 + Len(disk.header), Len(disk.bytes)) = disk.payload
        /\ probe.op = "split" =>
              /\ probe.exc = "none"
              /\ probe.header = disk.header
              /\ probe.payload = disk.payload

\* A file with a header longer than one length byte can count and an empty
\* payload was written and split.
C18_Witness ==
    /\ AsWritten
    /\ probe.op = "split"
    /\ Len(disk.header) > 256
    /\ disk.payload = <<>>
    /\ probe.exc = "none"
    /\ probe.header = disk.header

\* C20: is_valid_obb_file never raises; it returns true exactly when the
\* file can be opened and its first 4 bytes equal the magic, false for a
\* missing file, an unreadable file, a file shorter than 4 bytes and any
\* I/O failure; it reads nothing beyond the magic bytes.
C20_IsValidNeverRaises ==
    probe.op = "is_valid_obb_file" =>
        /\ probe.exc = "none"
        /\ probe.result <=>
              /\ disk.state = "file"
              /\ Len(disk.bytes) >= 4
              /\ \A i \in 1..4 : disk.bytes[i] = MagicBytes[i]
        /\ probe.consumed <= 4

\* is_valid_obb_file answered false for a written container that can no
\* longer be opened.
C20_Witness ==
    /\ probe.op = "is_valid_obb_file"
    /\ disk.state = "unreadable"
    /\ disk.origin = "writer"
    /\ ~probe.result
    /\ probe.exc = "none"

\* The call the caller made last.
LastOutput == caller.outputs[Len(caller.outputs)]

KeyMakingCalls == {"OBBEncryptor.encrypt", "generate_ephemeral_keypair"}

WritersDone ==
    /\ threads # NoThreads
    /\ \A t \in Writers : threads.proc[t].pc = "done"

\* The container thread t wrote passes verification with the vendor
\* public key.
OutputVerifies(t) ==
    verify_payload_signature(
        threads.proc[t].stream.payload,
        extract_metadata(threads.proc[t].stream.header.dict).signature,
        VendorKey)

\* C22: write calls running in parallel for different output files are
\* safe under every interleaving, also when the callers pass the same
\* metadata object: each container's header holds the signature over that
\* container's own payload, so each file passes verification.
C22_ParallelWritesVerify ==
    WritersDone => \A t \in Writers : OutputVerifies(t)

\* The last call built or read a design.
DesignCalled == call.op \in {"SurfaceGroup", "model_validate_json"}

\* The index is no position of the wavelength list.
IndexOutOfRange ==
    call.primary_wavelength_index \notin 0..(Len(call.wavelengths_nm) - 1)

\* C24: a design whose primary-wavelength index is out of range of its
\* wavelength list is accepted at construction and at read time without
\* error, and its primary_wavelength is the wavelength at index 0; for an
\* in-range index it is the wavelength at that index.
C24_PrimaryWavelengthFallback ==
    DesignCalled =>
        /\ call.exc = "none"
        /\ call.primary_wavelength =
              IF IndexOutOfRange THEN call.wavelengths_nm[1]
              ELSE call.wavelengths_nm[call.primary_wavelength_index + 1]

\* C25: reconstruction of a selective payload resolves no ambiguity by a
\* default: a payload structure that lacks any of its fields makes
\* decrypt_payload_selective fail with an error instead of returning a
\* design built from substituted default values.
C25_MissingFieldIsError ==
    (call.op = "decrypt_payload_selective" /\ call.missing # {}) =>
        call.exc # "none"

\* The constrained charset of a vendor identifier, the pattern
\* ^[a-z0-9][a-z0-9\-]*$ of VendorInfo.vendor_id: lower-case letters,
\* digits and, after the first character, hyphens.
VendorIdChars ==
    {"a", "b", "c", "d", "e", "f", "g", "h", "i", "j", "k", "l", "m", "n", "o",
     "p", "q", "r", "s", "t", "u", "v", "w", "x", "y", "z",
     "0", "1", "2", "3", "4", "5", "6", "7", "8", "9"}

InCharset(vendor_id) ==
    /\ \A i \in 1..Len(vendor_id) : vendor_id[i] \in VendorIdChars \cup {"-"}
    /\ vendor_id # <<>> => vendor_id[1] # "-"

\* C26: PublicMetadata construction rejects every vendor identifier shorter
\* than 3 or longer than 50 characters or with a character outside the
\* constrained charset, every name that is empty or longer than 100
\* characters, a numerical aperture outside [0, 1.5], a diameter that is
\* not positive and an element count below 1; every value inside these
\* bounds is accepted.
C26_MetadataBoundsEnforced ==
    call.op = "OBBMetadata" =>
        (call.exc = "none" <=>
            /\ Len(call.vendor_id) \in 3..50
            /\ InCharset(call.vendor_id)
            /\ Len(call.name) \in 1..100
            /\ call.na \in 0..1500
            /\ call.diameter_mm > 0
            /\ call.num_surfaces >= 1)

\* part is the list of the elements of seq at the positions in at, in
\* their order in seq.
IsPartAt(part, seq, at) ==
    /\ Len(part) = Cardinality(at)
    /\ \E f \in [1..Len(part) -> at] :
          /\ \A i, j \in 1..Len(part) : i < j => f[i] < f[j]
          /\ \A i \in 1..Len(part) : part[i] = seq[f[i]]

\* The positions of the design's elements with visibility v.
PositionsOf(v) ==
    {i \in 1..Len(call.surface_group.surfaces) :
        call.surface_group.surfaces[i].visibility = v}

\* The number of elements inside the encrypted blob of the payload (none
\* when the ciphertext field is the empty string).
BlobCount ==
    IF call.payload.encrypted_surfaces_data = <<>> THEN 0
    ELSE Len(call.payload.encrypted_surfaces_data[1].pt.dict.surfaces)

\* C27: the visibility partition of a design is exact: the three helper
\* lists are the elements at pairwise disjoint position sets that cover the
\* whole list, each in the original order; every element is in exactly one
\* of the three parts of the selective payload and the part sizes sum to
\* the element count; has_selective_encryption is true exactly when some
\* element is not Public.
C27_VisibilityPartitionExact ==
    call.op = "partition" =>
        /\ IsPartAt(call.public, call.surface_group.surfaces, PositionsOf(PUBLIC))
        /\ IsPartAt(call.encrypted, call.surface_group.surfaces, PositionsOf(ENCRYPTED))
        /\ IsPartAt(call.redacted, call.surface_group.surfaces, PositionsOf(REDACTED))
        /\ PositionsOf(PUBLIC) \cup PositionsOf(ENCRYPTED) \cup PositionsOf(REDACTED)
              = 1..Len(call.surface_group.surfaces)
        /\ Len(call.public) + Len(call.encrypted) + Len(call.redacted)
              = Len(call.surface_group.surfaces)
        /\ Len(call.payload.public_surfaces) = Len(call.public)
        /\ BlobCount = Len(call.encrypted)
        /\ Len(call.payload.redacted_surface_indices) = Len(call.redacted)
        /\ Len(call.payload.public_surfaces) + BlobCount
              + Len(call.payload.redacted_surface_indices)
              = Len(call.surface_group.surfaces)
        /\ call.has_selective_encryption <=>
              PositionsOf(PUBLIC) # 1..Len(call.surface_group.surfaces)

\* A design of one Redacted and one Encrypted element, the same ordinal
\* on both.
C27_Witness ==
    /\ call.op = "partition"
    /\ Len(call.surface_group.surfaces) = 2
    /\ call.public = <<>>
    /\ Len(call.encrypted) = 1
    /\ Len(call.redacted) = 1
    /\ call.redacted[1] = call.surface_group.surfaces[1]
    /\ call.redacted[1].surface_number = call.encrypted[1].surface_number
    /\ call.has_selective_encryption

\* The type names that, letter case aside, are in the supported set.
SupportedNames ==
    {"STANDARD", "standard", "Standard", "EVENASPH", "evenasph", "ODDASPH",
     "TOROIDAL", "Toroidal", "PARAXIAL", "paraxial"}

\* C28: map_surface_type raises UnsupportedSurfaceTypeError for every type
\* name that, compared case-insensitively, is not in the supported set;
\* build_surface never propagates that error and yields the standard type
\* instead; a read of a written payload with an element whose type tag is
\* outside the closed set fails instead of taking the default type.
C28_UnsupportedTypeBySource ==
    /\ call.op = "map_surface_type" =>
          (call.exc = "UnsupportedSurfaceTypeError" <=> call.zemax_type \notin SupportedNames)
    /\ call.op = "build_surface" =>
          /\ call.exc = "none"
          /\ ("type" \in DOMAIN call.surface_data
                /\ call.surface_data.type \notin SupportedNames)
                => call.val.surface_type = "standard"
    /\ (call.op = "read_type_tag" /\ call.tag \notin SurfaceTypeValues) =>
          /\ call.exc = "ValidationError"
          /\ call.design = NoDesign

\* build_surface on parsed data with a type outside the supported set.
C28_Witness ==
    /\ call.op = "build_surface"
    /\ "type" \in DOMAIN call.surface_data
    /\ call.surface_data.type = "zernike"
    /\ call.val.surface_type = "standard"
    /\ call.val.surface_number = 1

\* C30: over any sequence of register_parser, lookup and clear_registry
\* operations every key of the registry is a lower-cased extension bound to
\* one parser class, a binding once made is not replaced until
\* clear_registry (registering a bound extension raises ValueError), and a
\* register_parser call that raises leaves the registry exactly as it was
\* before the call, also when only a later one of its extensions was
\* already bound.
C30_RegistryConsistent ==
    /\ \A e \in DOMAIN registry : e \in {".zmx", ".zar"} /\ registry[e] \in ParserClasses
    /\ call.op \in {"register_parser", "get_parser_for_extension"} =>
          \A e \in DOMAIN call.before :
              e \in DOMAIN registry /\ registry[e] = call.before[e]
    /\ call.op = "register_parser" =>
          /\ (\E i \in 1..Len(call.extensions) :
                 Lower(call.extensions[i]) \in DOMAIN call.before) => call.exc = "ValueError"
          /\ call.exc = "ValueError" => registry = call.before

\* The output path holds the complete container of the last write call.
HoldsCompleteContainer ==
    /\ disk.state = "file"
    /\ SplitContainer(disk).exc = "none"
    /\ SplitContainer(disk).header = call.header_bytes
    /\ SplitContainer(disk).payload = call.encrypted_payload
    /\ Len(disk.bytes) = 8 + Len(call.header_bytes) + Len(call.encrypted_payload)

\* The output path holds exactly what it held before the last write call.
HoldsWhatItHeld ==
    /\ disk.state = call.before.state
    /\ disk.bytes = call.before.bytes

\* C29: after any write or write_selective call, whether it succeeds or
\* fails at encryption, signing, header building or writing, the output
\* path holds either a complete container or exactly what it held before
\* the call; a failed call leaves no empty or partial file and destroys no
\* file that existed at the path.
C29_ContainerProducedWholesale ==
    call.op = "write" =>
        /\ HoldsCompleteContainer \/ HoldsWhatItHeld
        /\ call.exc # "none" => HoldsWhatItHeld

====
